---- MODULE Spec2Model ----
(***************************************************************************)
(* Model of the offline analysis pipeline of the tilt experiment           *)
(* (src/staircase_to_stimuli.py): staircase log -> PSE per condition ->    *)
(* stimulus table, and MoCS response log -> response-proportion tables.    *)
(*                                                                         *)
(* Floating-point values are modelled as exact rationals [n, d] in lowest  *)
(* terms; the not-a-number value of the source (float('nan'), a missing    *)
(* CSV cell) is the record with d = 0.  Rounding error of IEEE arithmetic  *)
(* is not modelled.                                                        *)
(***************************************************************************)
EXTENDS Integers, Sequences, FiniteSets, TLC

(***************************************************************************)
(* Bounds of the model                                                     *)
(***************************************************************************)
MaxLog == 3        \* longest staircase log (rows)
MaxK == 2          \* largest k passed to pse_last_k_per_block_per_condition
MaxReps == 1       \* largest repetition count passed to make_stimuli_from_pse
MaxMocs == 3       \* longest MoCS response log (rows)
MaxFrame == 2      \* most rows of a data frame with explicit columns

(***************************************************************************)
(* Numbers: rationals with a not-a-number value                            *)
(***************************************************************************)
RECURSIVE GCD(_, _)
GCD(a, b) == IF b = 0 THEN a ELSE GCD(b, a % b)

IAbs(i) == IF i < 0 THEN -i ELSE i

NaN == [n |-> 0, d |-> 0]

IsNaN(x) == x.d = 0

\* the rational num/den (den # 0) in lowest terms with a positive denominator
Rat(num, den) ==
    LET g == GCD(IAbs(num), IAbs(den))
        s == IF den < 0 THEN -1 ELSE 1
    IN  [n |-> s * (num \div g), d |-> s * (den \div g)]

RInt(i) == [n |-> i, d |-> 1]

RAdd(x, y) == IF IsNaN(x) \/ IsNaN(y) THEN NaN
              ELSE Rat(x.n * y.d + y.n * x.d, x.d * y.d)

RMul(x, y) == IF IsNaN(x) \/ IsNaN(y) THEN NaN ELSE Rat(x.n * y.n, x.d * y.d)

RNeg(x) == IF IsNaN(x) THEN NaN ELSE [n |-> -x.n, d |-> x.d]

RAbs(x) == IF IsNaN(x) THEN NaN ELSE [n |-> IAbs(x.n), d |-> x.d]

\* x / i for an integer i > 0
RDivInt(x, i) == IF IsNaN(x) THEN NaN ELSE Rat(x.n, x.d * i)

\* comparisons with not-a-number are false, as for floats
RLess(x, y) == ~IsNaN(x) /\ ~IsNaN(y) /\ x.n * y.d < y.n * x.d

RGeq(x, y) == ~IsNaN(x) /\ ~IsNaN(y) /\ x.n * y.d >= y.n * x.d

RLeq(x, y) == RGeq(y, x)

RECURSIVE RSum(_)
RSum(s) == IF s = <<>> THEN RInt(0) ELSE RAdd(Head(s), RSum(Tail(s)))

Min(a, b) == IF a < b THEN a ELSE b

\* the elements of a finite set of integers in ascending order
RECURSIVE SortedInts(_)
SortedInts(S) ==
    IF S = {} THEN <<>>
    ELSE LET m == CHOOSE x \in S : \A y \in S : x <= y
         IN  <<m>> \o SortedInts(S \ {m})

RECURSIVE Flatten(_)
Flatten(ss) == IF ss = <<>> THEN <<>> ELSE Head(ss) \o Flatten(Tail(ss))

Range(s) == {s[i] : i \in 1..Len(s)}

\* the sequence f as an explicit tuple (evaluated once, not at every use)
Tup(f) == f \o <<>>

(***************************************************************************)
(* State                                                                   *)
(***************************************************************************)
VARIABLES
    df,          \* the staircase trial log, rows in run order
    pseOut,      \* result of the last pse_last_k_per_block_per_condition call
    stimArgs,    \* arguments of the last make_stimuli_from_pse call
    stimOut,     \* its result: status and the returned table
    mocs,        \* the MoCS response log
    mocsOut,     \* result of analyze_mocs on that log
    mocsRe,      \* the filtered log, filtered once and twice, and its analysis
    psyOut,      \* result of mocs_psychometric_tables on that log
    fitArgs,     \* arguments of the last fit_psychometric_logistic call
    fitOut,      \* its result: status and the returned dictionary
    curveArgs,   \* a point and the parameters of a psychometric curve
    curveOut,    \* the values of _logistic2 and _logistic4 there
    frame,       \* a caller's data frame: its columns and its rows
    frameOut,    \* results of the aggregation functions called on it
    sess,        \* the start of session 0: the files and what the run did
    trial        \* the trial routine of the presentation program

\* the variables of the fitter and of the curve evaluation
fitVars == <<fitArgs, fitOut, curveArgs, curveOut>>

\* the variables of the calls on frames and of the presentation program
auxVars == <<frame, frameOut, sess, trial>>

vars == <<df, pseOut, stimArgs, stimOut, mocs, mocsOut, mocsRe, psyOut, fitVars,
          auxVars>>

(***************************************************************************)
(* Staircase log -> PSE                                                    *)
(***************************************************************************)
SURROUND_ORDER == <<"noss", "poss", "negs">>

\* rank of a condition in the ordered categorical built from SURROUND_ORDER
CondRank(c) == CHOOSE i \in 1..Len(SURROUND_ORDER) : SURROUND_ORDER[i] = c

\* a label is its sequence of underscore-separated tokens; <<>> is a missing cell
NoLabel == <<>>

ExtractSurround(label) == label[Len(label)]

\* dropna(subset=['trials.label','trials.intensity'])
DropNa(log) ==
    SelectSeq(log, LAMBDA r : r.label # NoLabel /\ ~IsNaN(r.intensity))

\* the first k rows instead of the last k
LastKMeanHead(series, k) ==
    IF series = <<>> THEN NaN
    ELSE LET k_eff == Min(k, Len(series))
         IN  RDivInt(RSum(SubSeq(series, 1, k_eff)), k_eff)

LastKMean(series, k) ==
    IF series = <<>> THEN NaN
    ELSE LET k_eff == Min(k, Len(series))
             tail  == SubSeq(series, Len(series) - k_eff + 1, Len(series))
         IN  RDivInt(RSum(tail), k_eff)

Intensities(g) == Tup([i \in 1..Len(g) |-> g[i].intensity])

\* the observed pairs only: no row for a (block, condition) without trials
PerBlockRowsObserved(d, k) ==
    LET bids == SortedInts({d[i].block : i \in 1..Len(d)})
        RowOf(bid, cond) ==
            LET g == SelectSeq(d, LAMBDA r :
                        r.block = bid /\ ExtractSurround(r.label) = cond)
            IN  IF g = <<>> THEN <<>>
                ELSE <<[block_id |-> bid,
                        condition |-> cond,
                        n_trials_available |-> Len(g),
                        n_used |-> Min(k, Len(g)),
                        mean_last_k |-> LastKMean(Intensities(g), k)]>>
    IN  Flatten(Flatten([b \in 1..Len(bids) |->
                   [c \in 1..Len(SURROUND_ORDER) |->
                       RowOf(bids[b], SURROUND_ORDER[c])]]))

\* the rows the loop over blocks and conditions appends.  The block column
\* (blocks.thisRepN) holds an integer on every row, and df has the index of
\* read_csv (0, 1, 2, ...), so that sort_index keeps the log order
PerBlockRows(d, k) ==
    LET bids == SortedInts({d[i].block : i \in 1..Len(d)})
        RowOf(bid, cond) ==
            LET g == SelectSeq(d, LAMBDA r :
                        r.block = bid /\ ExtractSurround(r.label) = cond)
            IN  [block_id |-> bid,
                 condition |-> cond,
                 n_trials_available |-> Len(g),
                 n_used |-> Min(k, Len(g)),
                 mean_last_k |-> LastKMean(Intensities(g), k)]
    IN  Flatten([b \in 1..Len(bids) |->
                   [c \in 1..Len(SURROUND_ORDER) |->
                       RowOf(bids[b], SURROUND_ORDER[c])]])

\* sort_values orders rows by a tuple of numeric keys, not-a-number last
ElemLess(x, y) == ~IsNaN(x) /\ (IsNaN(y) \/ x.n * y.d < y.n * x.d)

RECURSIVE KeyLess(_, _)
KeyLess(a, b) ==
    /\ a # <<>>
    /\ \/ ElemLess(Head(a), Head(b))
       \/ Head(a) = Head(b) /\ KeyLess(Tail(a), Tail(b))

\* stable merge of two sequences of keyed rows, each sorted by key: on equal
\* keys the rows of l come first
Merge(l, r) ==
    IF l = <<>> \/ r = <<>> \/ ~KeyLess(r[1].key, l[Len(l)].key) THEN l \o r
    ELSE LET posL == Tup([i \in 1..Len(l) |->
                        i + Cardinality({j \in 1..Len(r) : KeyLess(r[j].key, l[i].key)})])
             posR == Tup([j \in 1..Len(r) |->
                        j + Cardinality({i \in 1..Len(l) : ~KeyLess(r[j].key, l[i].key)})])
         IN  Tup([p \in 1..(Len(l) + Len(r)) |->
                    IF \E i \in 1..Len(l) : posL[i] = p
                    THEN l[CHOOSE i \in 1..Len(l) : posL[i] = p]
                    ELSE r[CHOOSE j \in 1..Len(r) : posR[j] = p]])

RECURSIVE MergeSort(_, _, _)
MergeSort(s, lo, hi) ==
    IF lo > hi THEN <<>>
    ELSE IF lo = hi THEN <<s[lo]>>
    ELSE LET mid   == (lo + hi) \div 2
             left  == MergeSort(s, lo, mid)
             right == MergeSort(s, mid + 1, hi)
         IN  Merge(left, right)

\* stable sort of keyed rows [key, row]
SortKeyed(rows) == LET s == Tup(rows) IN MergeSort(s, 1, Len(s))

Unkey(s) == Tup([i \in 1..Len(s) |-> s[i].row])

\* per_block.sort_values(['block_id','condition'])
SortPerBlock(rows) ==
    Unkey(SortKeyed([i \in 1..Len(rows) |->
        [key |-> <<RInt(rows[i].block_id), RInt(CondRank(rows[i].condition))>>,
         row |-> rows[i]]]))

\* every trial used weighs the same: blocks weighted by n_used
CollapseWeighted(per_block) ==
    [c \in 1..Len(SURROUND_ORDER) |->
        LET cond  == SURROUND_ORDER[c]
            means == SelectSeq(per_block, LAMBDA r :
                        r.condition = cond /\ ~IsNaN(r.mean_last_k))
            vals  == Tup([i \in 1..Len(means) |->
                        RMul(RInt(means[i].n_used), means[i].mean_last_k)])
            used  == Tup([i \in 1..Len(means) |-> RInt(means[i].n_used)])
        IN  [condition |-> cond,
             PSE |-> IF vals = <<>> THEN NaN ELSE RDivInt(RSum(vals), RSum(used).n),
             n_blocks_used |-> Len(vals)]]

\* groupby('condition').agg(mean, count of notna) in category order
Collapse(per_block) ==
    [c \in 1..Len(SURROUND_ORDER) |->
        LET cond  == SURROUND_ORDER[c]
            means == SelectSeq(per_block, LAMBDA r : r.condition = cond /\ ~IsNaN(r.mean_last_k))
            vals  == Tup([i \in 1..Len(means) |-> means[i].mean_last_k])
        IN  [condition |-> cond,
             PSE |-> IF vals = <<>> THEN NaN ELSE RDivInt(RSum(vals), Len(vals)),
             n_blocks_used |-> Len(vals)]]

NoTable == <<>>

\* pse_last_k_per_block_per_condition(df, k)
PseLastK(log, k) ==
    LET d    == DropNa(log)
        rows == PerBlockRows(d, k)
    IN  IF rows = <<>>
        THEN \* DataFrame([]) has no 'condition' column
             [status |-> "KeyError", k |-> k, per_block |-> NoTable, coll |-> NoTable]
        ELSE LET per_block == SortPerBlock(rows)
             IN  [status |-> "ok", k |-> k, per_block |-> per_block,
                  coll |-> Collapse(per_block)]

NotCalled == [status |-> "none"]

(***************************************************************************)
(* PSE -> stimulus table                                                   *)
(***************************************************************************)
Zero == RInt(0)

SurroundOpacityOn == 100

\* the (name, multiple of step) pairs of the offsets list for n_conditions
OffsetSteps(n_conditions) ==
    IF n_conditions = 5
    THEN << <<"m2", -2>>, <<"m1", -1>>, <<"PSE", 0>>, <<"p1", 1>>, <<"p2", 2>> >>
    ELSE << <<"m3", -3>>, <<"m2", -2>>, <<"m1", -1>>, <<"PSE", 0>>,
            <<"p1", 1>>, <<"p2", 2>>, <<"p3", 3>> >>

Offsets(n_conditions, step) ==
    LET os == OffsetSteps(n_conditions)
    IN  Tup([i \in 1..Len(os) |->
            [tname |-> os[i][1], delta |-> RMul(RInt(os[i][2]), step)]])

\* one row too many: range(reps + 1)
RepeatOneMore(row, reps) == Tup([i \in 1..(reps + 1) |-> row])

\* for _ in range(int(reps)): rows.append(row)
Repeat(row, reps) == Tup([i \in 1..reps |-> row])

\* the level without abs()
PossRowsNoAbs(pse, offsets, surround_mag, reps) ==
    Flatten([i \in 1..Len(offsets) |->
        LET level == RAdd(pse, offsets[i].delta)
        IN  Repeat([center |-> level, surround |-> RAbs(surround_mag),
                    type |-> offsets[i].tname, surr_type |-> "poss",
                    surr_opacity |-> SurroundOpacityOn], reps)])

PossRows(pse, offsets, surround_mag, reps) ==
    Flatten([i \in 1..Len(offsets) |->
        LET level == RAbs(RAdd(pse, offsets[i].delta))
        IN  Repeat([center |-> level, surround |-> RAbs(surround_mag),
                    type |-> offsets[i].tname, surr_type |-> "poss",
                    surr_opacity |-> SurroundOpacityOn], reps)])

\* the level without abs(): the centre is the offset PSE itself
NegsRowsNoAbs(pse, offsets, surround_mag, reps) ==
    Flatten([i \in 1..Len(offsets) |->
        LET level == RAdd(pse, offsets[i].delta)
        IN  Repeat([center |-> level, surround |-> RNeg(RAbs(surround_mag)),
                    type |-> offsets[i].tname, surr_type |-> "negs",
                    surr_opacity |-> SurroundOpacityOn], reps)])

NegsRows(pse, offsets, surround_mag, reps) ==
    Flatten([i \in 1..Len(offsets) |->
        LET level == RAbs(RAdd(pse, offsets[i].delta))
        IN  Repeat([center |-> RNeg(level), surround |-> RNeg(RAbs(surround_mag)),
                    type |-> offsets[i].tname, surr_type |-> "negs",
                    surr_opacity |-> SurroundOpacityOn], reps)])

\* the sign taken per offset: the centre is the offset PSE itself
NossRowsPerOffsetSign(pse, offsets, reps) ==
    Flatten([i \in 1..Len(offsets) |->
        LET level == RAdd(pse, offsets[i].delta)
        IN  Repeat([center |-> level, surround |-> Zero,
                    type |-> offsets[i].tname, surr_type |-> "noss",
                    surr_opacity |-> 0], reps)])

NossRows(pse, offsets, reps) ==
    LET base_sign == IF RGeq(pse, Zero) THEN RInt(1) ELSE RInt(-1)
    IN  Flatten([i \in 1..Len(offsets) |->
            LET level == RMul(base_sign, RAbs(RAdd(pse, offsets[i].delta)))
            IN  Repeat([center |-> level, surround |-> Zero,
                        type |-> offsets[i].tname, surr_type |-> "noss",
                        surr_opacity |-> 0], reps)])

\* type_order: position of a label in the offsets list, from 0
TypeOrder(offsets, tname) ==
    (CHOOSE i \in 1..Len(offsets) : offsets[i].tname = tname) - 1

\* the rank of SURROUND_ORDER instead of the table's own order
SurrOrderAsSurroundOrder(surr_type) == CondRank(surr_type) - 1

SurrOrder(surr_type) ==
    CASE surr_type = "poss" -> 0
      [] surr_type = "negs" -> 1
      [] surr_type = "noss" -> 2

\* out.sort_values(['__so','__to','center'])
SortStimuli(rows, offsets) ==
    Unkey(SortKeyed([i \in 1..Len(rows) |->
        [key |-> <<RInt(SurrOrder(rows[i].surr_type)),
                   RInt(TypeOrder(offsets, rows[i].type)),
                   rows[i].center>>,
         row |-> rows[i]]]))

RequiredKeys == {"poss", "negs", "noss"}

\* a final else that builds the 7-level table for any other n_conditions
SupportedNConditionsAny(n_conditions) == TRUE

\* n_conditions == 5 ... elif n_conditions == 7 ... else raise
SupportedNConditions(n_conditions) == n_conditions \in {5, 7}

\* make_stimuli_from_pse(pse_by_condition, step, surround_mag, reps_poss_negs,
\*                       reps_noss, n_conditions)
MakeStimuli(a) ==
    IF \E key \in RequiredKeys : key \notin DOMAIN a.pse_by_condition
    THEN [status |-> "ValueError", msg |-> "pse_by_condition", rows |-> NoTable]
    ELSE IF ~SupportedNConditions(a.n_conditions)
    THEN [status |-> "ValueError", msg |-> "n_conditions", rows |-> NoTable]
    ELSE LET offsets == Offsets(a.n_conditions, a.step)
             rows == PossRows(a.pse_by_condition["poss"], offsets,
                              a.surround_mag, a.reps_poss_negs)
                  \o NegsRows(a.pse_by_condition["negs"], offsets,
                              a.surround_mag, a.reps_poss_negs)
                  \o NossRows(a.pse_by_condition["noss"], offsets, a.reps_noss)
         IN  [status |-> "ok", msg |-> "", rows |-> SortStimuli(rows, offsets)]

(***************************************************************************)
(* build_trials_from_staircase: log -> PSE map -> stimulus table           *)
(***************************************************************************)
DefaultStep == Rat(1, 2)

DefaultSurroundMag == RInt(15)

\* {row['condition']: float(row['PSE']) for _, row in collapsed.iterrows()}
PseMap(coll) ==
    [c \in {coll[i].condition : i \in 1..Len(coll)} |->
        (CHOOSE r \in Range(coll) : r.condition = c).PSE]

NoArgs == [n_conditions |-> 0]

\* no fit and no curve evaluation has been requested
\* no call on a frame has been requested and the program is not running
IdleAux ==
    /\ frame = NotCalled
    /\ frameOut = NotCalled
    /\ sess = NotCalled
    /\ trial = NotCalled

IdleFit ==
    /\ fitArgs = NoArgs
    /\ fitOut = NotCalled
    /\ curveArgs = NoArgs
    /\ curveOut = NotCalled

(***************************************************************************)
(* The staircase pipeline: the presentation program logs trials, then the  *)
(* log is aggregated, directly or through build_trials_from_staircase      *)
(***************************************************************************)
\* rows of the log: labels whose last token is (or is not) a condition tag,
\* two intensities, two blocks, and rows with a missing label or intensity
TrialRows ==
    [label : {<<"stair", "noss">>, <<"noss", "poss">>},
     intensity : {RInt(1), RInt(4)}, block : {0, 1}]
    \cup { [label |-> <<"negs">>, intensity |-> RInt(4), block |-> 0] }
    \cup { [label |-> NoLabel, intensity |-> RInt(4), block |-> 0],
           [label |-> <<"stair", "noss">>, intensity |-> NaN, block |-> 1],
           [label |-> <<"poss", "x">>, intensity |-> RInt(1), block |-> 1] }

InitStair ==
    /\ df = <<>>
    /\ pseOut = NotCalled
    /\ stimArgs = NoArgs
    /\ stimOut = NotCalled
    /\ mocs = <<>>
    /\ mocsOut = NotCalled
    /\ mocsRe = NotCalled
    /\ psyOut = NotCalled
    /\ IdleFit
    /\ IdleAux

LogTrial(row) ==
    /\ pseOut.status = "none"
    /\ Len(df) < MaxLog
    /\ df' = Append(df, row)
    /\ UNCHANGED <<pseOut, stimArgs, stimOut, mocs, mocsOut, mocsRe, psyOut, fitVars, auxVars>>

DefaultNConditions == 5

DefaultReps == 1

BuildTrialsFromStaircase(k) ==
    /\ pseOut.status = "none"
    /\ pseOut' = PseLastK(df, k)
    /\ IF pseOut'.status = "ok"
       THEN /\ stimArgs' = [pse_by_condition |-> PseMap(pseOut'.coll),
                            step |-> DefaultStep,
                            surround_mag |-> DefaultSurroundMag,
                            reps_poss_negs |-> DefaultReps,
                            reps_noss |-> DefaultReps,
                            n_conditions |-> DefaultNConditions]
            /\ stimOut' = MakeStimuli(stimArgs')
       ELSE \* the exception propagates: make_stimuli_from_pse is not called
            UNCHANGED <<stimArgs, stimOut>>
    /\ UNCHANGED <<df, mocs, mocsOut, mocsRe, psyOut, fitVars, auxVars>>

NextStair ==
    \/ \E row \in TrialRows : LogTrial(row)
    \/ \E k \in 1..MaxK : BuildTrialsFromStaircase(k)

SpecStair == InitStair /\ [][NextStair]_vars

(***************************************************************************)
(* make_stimuli_from_pse called directly                                   *)
(***************************************************************************)
PseValues == {NaN, Rat(-3, 4), Zero, Rat(1, 2)}

\* maps from any subset of the condition keys to a PSE
PseMaps ==
    UNION {[K -> PseValues] : K \in SUBSET RequiredKeys}

StimInputs ==
    [pse_by_condition : PseMaps,
     step : {Rat(1, 2), RInt(-1)},
     surround_mag : {RInt(15), RInt(-15)},
     reps_poss_negs : 0..MaxReps,
     reps_noss : 0..MaxReps,
     n_conditions : {5, 6, 7}]

\* the session-0 call of the presentation program: reps 40 and 20, 7 levels,
\* default step and surround magnitude
SessionRepsPossNegs == 40

SessionRepsNoss == 20

SessionNConditions == 7

SessionInputs ==
    [pse_by_condition : [RequiredKeys -> {Rat(-3, 4), Rat(1, 2)}],
     step : {DefaultStep},
     surround_mag : {DefaultSurroundMag},
     reps_poss_negs : {SessionRepsPossNegs},
     reps_noss : {SessionRepsNoss},
     n_conditions : {SessionNConditions}]

InitStim ==
    /\ df = <<>>
    /\ pseOut = NotCalled
    /\ stimArgs \in StimInputs \cup SessionInputs
    /\ stimOut = NotCalled
    /\ mocs = <<>>
    /\ mocsOut = NotCalled
    /\ mocsRe = NotCalled
    /\ psyOut = NotCalled
    /\ IdleFit
    /\ IdleAux

CallMakeStimuli ==
    /\ stimOut.status = "none"
    /\ stimOut' = MakeStimuli(stimArgs)
    /\ UNCHANGED <<df, pseOut, stimArgs, mocs, mocsOut, mocsRe, psyOut, fitVars, auxVars>>

NextStim == CallMakeStimuli

SpecStim == InitStim /\ [][NextStim]_vars

(***************************************************************************)
(* MoCS response log -> response-proportion tables                         *)
(***************************************************************************)
valid_types == {"m3", "m2", "m1", "PSE", "p1", "p2", "p3"}

ResponseKeys == {"left", "right"}

\* a missing cell of a text column (read_csv reads an empty cell as missing)
NoKey == ""

\* the response filter left out: only the type is checked
CleanMocsTypeOnly(log) == SelectSeq(log, LAMBDA r : r.type \in valid_types)

\* the filter also losing the first row it keeps
CleanMocsSkipFirst(log) ==
    LET d == SelectSeq(log, LAMBDA r : r.type \in valid_types /\ r.resp \in ResponseKeys)
    IN  IF d = <<>> THEN d ELSE Tail(d)

\* _clean_mocs_df: the rows with a valid type and a left/right response
CleanMocs(log) ==
    SelectSeq(log, LAMBDA r : r.type \in valid_types /\ r.resp \in ResponseKeys)

\* only poss lumped into with_surround
GroupPossOnly(r) == IF r.surr_type = "poss" THEN "with_surround" ELSE "noss"

\* np.where(surr_type.isin(['poss','negs']), 'with_surround', 'noss')
Group(r) == IF r.surr_type \in {"poss", "negs"} THEN "with_surround" ELSE "noss"

\* the strings used as sort keys, in the order Python compares strings
StrOrder == <<"PSE", "m1", "m2", "m3", "negs", "none", "noss", "p1", "p2", "p3",
              "poss", "with_surround">>

StrRank(str) == CHOOSE i \in 1..Len(StrOrder) : StrOrder[i] = str

\* pd.unique: the distinct elements in order of first appearance
RECURSIVE Unique(_)
Unique(s) ==
    IF s = <<>> THEN <<>>
    ELSE LET init == SubSeq(s, 1, Len(s) - 1)
             x    == s[Len(s)]
         IN  IF x \in Range(init) THEN Unique(init) ELSE Append(Unique(init), x)

Decimals == 3

RECURSIVE Pow10(_)
Pow10(e) == IF e = 0 THEN 1 ELSE 10 * Pow10(e - 1)

\* floor of num/den for den > 0
FloorDiv(num, den) == IF num >= 0 THEN num \div den ELSE -((-num + den - 1) \div den)

\* round(x, 3): to the nearest multiple of 10^-3, ties to the even one
Round3(x) ==
    LET num == x.n * Pow10(Decimals)
        f   == FloorDiv(num, x.d)
        r2  == 2 * (num - f * x.d)
        q   == IF r2 > x.d \/ (r2 = x.d /\ f % 2 = 1) THEN f + 1 ELSE f
    IN  Rat(q, Pow10(Decimals))

\* _collect_values_tuple(series)
CollectValues(series) ==
    LET arr    == Unique(SelectSeq(series, LAMBDA x : ~IsNaN(x)))
        sorted == Unkey(SortKeyed([i \in 1..Len(arr) |->
                                     [key |-> <<arr[i]>>, row |-> arr[i]]]))
    IN  Tup([i \in 1..Len(sorted) |-> Round3(sorted[i])])

\* value_counts: the number of rows of g with the response key
CountKey(g, key) == Len(SelectSeq(g, LAMBDA r : r.resp = key))

\* one row of a proportion table: the rows g of one group of the filtered log
ProportionRow(type, by, g) ==
    LET left  == CountKey(g, "left")
        right == CountKey(g, "right")
        n     == left + right
        den   == IF n > 0 THEN n ELSE 1
    IN  [type |-> type, by |-> by, n |-> n, n_left |-> left, n_right |-> right,
         p_left |-> RDivInt(RInt(left), den),
         p_right |-> RDivInt(RInt(right), den),
         values |-> CollectValues(Tup([i \in 1..Len(g) |-> g[i].center]))]

\* the grouping column of a row: 'group' (combined) or 'surr_type' (separate)
By(r, column) == IF column = "group" THEN Group(r) ELSE r.surr_type

\* a row for every pair of an observed type and an observed column value, also
\* for a pair no row of d has
ProportionTableCross(d, column) ==
    LET keys == {d[i].type : i \in 1..Len(d)} \X {By(d[i], column) : i \in 1..Len(d)}
        ranks == SortedInts({StrRank(k[1]) * (Len(StrOrder) + 1) + StrRank(k[2]) :
                                k \in keys})
        KeyAt(i) == CHOOSE k \in keys :
                        StrRank(k[1]) * (Len(StrOrder) + 1) + StrRank(k[2]) = ranks[i]
        rows == Tup([i \in 1..Len(ranks) |->
                    LET k == KeyAt(i)
                    IN  ProportionRow(k[1], k[2],
                            SelectSeq(d, LAMBDA r : r.type = k[1] /\ By(r, column) = k[2]))])
    IN  Unkey(SortKeyed([i \in 1..Len(rows) |->
            [key |-> <<RInt(StrRank(rows[i].by)), RInt(StrRank(rows[i].type))>>,
             row |-> rows[i]]]))

\* the groups in the order of the pivot table, (type, column), without the
\* final sort by (column, type)
ProportionTablePivotOrder(d, column) ==
    LET keys == {<<d[i].type, By(d[i], column)>> : i \in 1..Len(d)}
        ranks == SortedInts({StrRank(k[1]) * (Len(StrOrder) + 1) + StrRank(k[2]) :
                                k \in keys})
        KeyAt(i) == CHOOSE k \in keys :
                        StrRank(k[1]) * (Len(StrOrder) + 1) + StrRank(k[2]) = ranks[i]
    IN  Tup([i \in 1..Len(ranks) |->
                LET k == KeyAt(i)
                IN  ProportionRow(k[1], k[2],
                        SelectSeq(d, LAMBDA r : r.type = k[1] /\ By(r, column) = k[2]))])

\* the groups of d under (type, column), one table row each, sorted by
\* (column, type)
ProportionTable(d, column) ==
    LET keys == {<<d[i].type, By(d[i], column)>> : i \in 1..Len(d)}
        ranks == SortedInts({StrRank(k[1]) * (Len(StrOrder) + 1) + StrRank(k[2]) :
                                k \in keys})
        KeyAt(i) == CHOOSE k \in keys :
                        StrRank(k[1]) * (Len(StrOrder) + 1) + StrRank(k[2]) = ranks[i]
        rows == Tup([i \in 1..Len(ranks) |->
                    LET k == KeyAt(i)
                    IN  ProportionRow(k[1], k[2],
                            SelectSeq(d, LAMBDA r : r.type = k[1] /\ By(r, column) = k[2]))])
    IN  Unkey(SortKeyed([i \in 1..Len(rows) |->
            [key |-> <<RInt(StrRank(rows[i].by)), RInt(StrRank(rows[i].type))>>,
             row |-> rows[i]]]))

\* the table grouped on the centers rounded to 3 decimals
PsychometricTableRounded(d, surr) ==
    LET g       == SelectSeq(d, LAMBDA r : r.surr_type = surr)
        centers == Unique(SelectSeq(Tup([i \in 1..Len(g) |-> Round3(g[i].center)]),
                                    LAMBDA x : ~IsNaN(x)))
        rows    == Tup([i \in 1..Len(centers) |->
                       LET at    == SelectSeq(g, LAMBDA r : Round3(r.center) = centers[i])
                           left  == CountKey(at, "left")
                           right == CountKey(at, "right")
                           n     == left + right
                           den   == IF n > 0 THEN n ELSE 1
                       IN  [center |-> centers[i], n_left |-> left,
                            n_right |-> right, n |-> n,
                            p_left |-> RDivInt(RInt(left), den)]])
    IN  Unkey(SortKeyed([i \in 1..Len(rows) |->
                            [key |-> <<rows[i].center>>, row |-> rows[i]]]))

\* the rows of the filtered log d whose surr_type is surr, one table row for
\* each center (groupby drops a missing center), sorted by center
PsychometricTable(d, surr) ==
    LET g       == SelectSeq(d, LAMBDA r : r.surr_type = surr)
        centers == Unique(SelectSeq(Tup([i \in 1..Len(g) |-> g[i].center]),
                                    LAMBDA x : ~IsNaN(x)))
        rows    == Tup([i \in 1..Len(centers) |->
                       LET at    == SelectSeq(g, LAMBDA r : r.center = centers[i])
                           left  == CountKey(at, "left")
                           right == CountKey(at, "right")
                           n     == left + right
                           den   == IF n > 0 THEN n ELSE 1
                       IN  [center |-> centers[i], n_left |-> left,
                            n_right |-> right, n |-> n,
                            p_left |-> RDivInt(RInt(left), den)]])
    IN  Unkey(SortKeyed([i \in 1..Len(rows) |->
                            [key |-> <<rows[i].center>>, row |-> rows[i]]]))

\* the surround types mocs_psychometric_tables loops over
SurroundTypes == <<"poss", "negs", "noss">>

\* mocs_psychometric_tables(df): a table for each surround type that has a
\* row in the filtered log
MocsPsychometricTables(log) ==
    LET d       == CleanMocs(log)
        present == {surr \in Range(SurroundTypes) :
                       \E i \in 1..Len(d) : d[i].surr_type = surr}
    IN  [status |-> "ok",
         tables |-> [surr \in present |-> PsychometricTable(d, surr)]]

\* analyze_mocs(df).  For a log without any counted row the groupby, pivot and
\* merge of pandas are taken to give two tables without rows
AnalyzeMocs(log) ==
    LET d == CleanMocs(log)
    IN  [status |-> "ok",
         comb_out |-> ProportionTable(d, "group"),
         separate |-> ProportionTable(d, "surr_type")]

(***************************************************************************)
(* The MoCS pipeline: a response row is written to the log and the log is  *)
(* analysed again (analyze_mocs_from_csv)                                  *)
(***************************************************************************)
\* rows of the log: counted responses at the PSE level of each surround type
\* (two poss centers 0.5001 and 0.5004 that differ by less than 10^-3) and at
\* m1, a counted row whose surr_type is none of the three tags, and rows with
\* a timeout, a missing response or an unknown type
MocsRows ==
    { [type |-> "PSE", surr_type |-> "poss", resp |-> "left",
       center |-> Rat(5001, 10000)],
      [type |-> "PSE", surr_type |-> "poss", resp |-> "right",
       center |-> Rat(5004, 10000)] }
    \cup [type : {"PSE"}, surr_type : {"negs"}, resp : ResponseKeys,
          center : {Rat(-5004, 10000)}]
    \cup [type : {"PSE"}, surr_type : {"noss"}, resp : ResponseKeys,
          center : {Rat(5004, 10000)}]
    \cup { [type |-> "m1", surr_type |-> "negs", resp |-> "left", center |-> RInt(1)],
           [type |-> "PSE", surr_type |-> "none", resp |-> "left",
            center |-> RInt(0)],
           [type |-> "PSE", surr_type |-> "poss", resp |-> "timeout",
            center |-> RInt(2)],
           [type |-> "PSE", surr_type |-> "noss", resp |-> NoKey, center |-> RInt(3)],
           [type |-> "m4", surr_type |-> "negs", resp |-> "left", center |-> RInt(-2)] }

InsertAt(s, pos, x) == SubSeq(s, 1, pos - 1) \o <<x>> \o SubSeq(s, pos, Len(s))

\* the log filtered by _clean_mocs_df, the filtered log filtered again, and
\* analyze_mocs called on the filtered log
AnalyzeFiltered(log) ==
    LET d == CleanMocs(log)
    IN  [status |-> "ok", d |-> d, dd |-> CleanMocs(d), out |-> AnalyzeMocs(d)]

InitMocs ==
    /\ df = <<>>
    /\ pseOut = NotCalled
    /\ stimArgs = NoArgs
    /\ stimOut = NotCalled
    /\ mocs = <<>>
    /\ mocsOut = AnalyzeMocs(<<>>)
    /\ mocsRe = AnalyzeFiltered(<<>>)
    /\ psyOut = MocsPsychometricTables(<<>>)
    /\ IdleFit
    /\ IdleAux

\* the analysis functions run on the log
Analyses ==
    /\ mocsOut' = AnalyzeMocs(mocs')
    /\ mocsRe' = AnalyzeFiltered(mocs')
    /\ psyOut' = MocsPsychometricTables(mocs')
    /\ UNCHANGED <<df, pseOut, stimArgs, stimOut, fitVars, auxVars>>

LogAndAnalyze(row, pos) ==
    /\ Len(mocs) < MaxMocs
    /\ mocs' = InsertAt(mocs, pos, row)
    /\ Analyses

NextMocs == \E row \in MocsRows : \E pos \in 1..(Len(mocs) + 1) : LogAndAnalyze(row, pos)

SpecMocs == InitMocs /\ [][NextMocs]_vars

\* the length of the log of the worked example: 6 poss and negs rows at PSE
ExampleRows == 6

\* counted PSE rows with a surround
SurroundPseRows ==
    {r \in MocsRows : r.type = "PSE" /\ r.surr_type \in {"poss", "negs"}
                         /\ r.resp \in ResponseKeys}

\* a session of PSE trials with a surround only: the response row is appended
LogSurroundResponse(row) ==
    /\ Len(mocs) < ExampleRows
    /\ \A i \in 1..Len(mocs) : mocs[i] \in SurroundPseRows
    /\ mocs' = Append(mocs, row)
    /\ Analyses

NextMocsPse ==
    \/ NextMocs
    \/ \E row \in SurroundPseRows : LogSurroundResponse(row)

SpecMocsPse == InitMocs /\ [][NextMocsPse]_vars

(***************************************************************************)
(* Psychometric curves and their fit (_logistic2, _logistic4,              *)
(* fit_psychometric_logistic).  np.exp and np.log are tables of their      *)
(* values to 3 decimals at the arguments that occur; scipy's minimize is   *)
(* any result within the bounds it is given                                *)
(***************************************************************************)
\* x / y for y # 0
RDiv(x, y) == IF IsNaN(x) \/ IsNaN(y) THEN NaN ELSE Rat(x.n * y.d, x.d * y.n)

RSub(x, y) == RAdd(x, RNeg(y))

\* np.clip(x, lo, hi)
Clip(x, lo, hi) == IF RLess(x, lo) THEN lo ELSE IF RLess(hi, x) THEN hi ELSE x

\* np.exp to 3 decimals
ExpTable ==
    { <<Rat(-4, 1), Rat(18, 1000)>>, <<Rat(-2, 1), Rat(135, 1000)>>,
      <<Rat(-1, 1), Rat(368, 1000)>>, <<Rat(-1, 2), Rat(607, 1000)>>,
      <<Rat(0, 1), Rat(1000, 1000)>>, <<Rat(1, 2), Rat(1649, 1000)>>,
      <<Rat(1, 1), Rat(2718, 1000)>>, <<Rat(2, 1), Rat(7389, 1000)>>,
      <<Rat(4, 1), Rat(54598, 1000)>> }

Exp(z) == (CHOOSE e \in ExpTable : e[1] = z)[2]

\* np.log to 3 decimals
LnTable ==
    { <<Rat(3, 5), Rat(-511, 1000)>>, <<Rat(5, 8), Rat(-470, 1000)>>,
      <<Rat(24, 25), Rat(-41, 1000)>>, <<Rat(1, 1), Rat(0, 1000)>>,
      <<Rat(25, 24), Rat(41, 1000)>>, <<Rat(20, 19), Rat(51, 1000)>>,
      <<Rat(29, 20), Rat(372, 1000)>>, <<Rat(3, 2), Rat(405, 1000)>>,
      <<Rat(29, 19), Rat(423, 1000)>>, <<Rat(30, 19), Rat(457, 1000)>>,
      <<Rat(8, 5), Rat(470, 1000)>>, <<Rat(5, 3), Rat(511, 1000)>>,
      <<Rat(25, 14), Rat(580, 1000)>>, <<Rat(2, 1), Rat(693, 1000)>>,
      <<Rat(34, 15), Rat(818, 1000)>>, <<Rat(7, 3), Rat(847, 1000)>>,
      <<Rat(17, 7), Rat(887, 1000)>>, <<Rat(5, 2), Rat(916, 1000)>>,
      <<Rat(29, 10), Rat(1065, 1000)>>, <<Rat(3, 1), Rat(1099, 1000)>>,
      <<Rat(5, 1), Rat(1609, 1000)>>, <<Rat(34, 5), Rat(1917, 1000)>>,
      <<Rat(7, 1), Rat(1946, 1000)>> }

Ln(x) == (CHOOSE e \in LnTable : e[1] = x)[2]

\* _logistic2(x, x0, s)
Logistic2(x, x0, s) ==
    RDiv(RInt(1), RAdd(RInt(1), Exp(RDiv(RNeg(RSub(x, x0)), s))))

\* the slope multiplied instead of divided
Logistic4Scaled(x, x0, s, gamma, lam) ==
    LET base == RDiv(RInt(1), RAdd(RInt(1), Exp(RMul(RNeg(RSub(x, x0)), s))))
    IN  RAdd(gamma, RMul(RSub(RSub(RInt(1), gamma), lam), base))

\* _logistic4(x, x0, s, gamma, lam)
Logistic4(x, x0, s, gamma, lam) ==
    LET base == RDiv(RInt(1), RAdd(RInt(1), Exp(RDiv(RNeg(RSub(x, x0)), s))))
    IN  RAdd(gamma, RMul(RSub(RSub(RInt(1), gamma), lam), base))

\* the lower bound of the slope and the clip margin of a probability (1e-6)
Tiny == Rat(1, 1000000)

\* the upper bound of the guess and lapse rates
MaxRate == Rat(1, 5)

\* no bound on this side
Unbounded == NaN

\* minimize called without a lower bound on the slope
FitBoundsSlopeFree(model) ==
    IF model = "logistic2"
    THEN << <<Unbounded, Unbounded>>, <<Unbounded, Unbounded>> >>
    ELSE << <<Unbounded, Unbounded>>, <<Unbounded, Unbounded>>,
            <<RInt(0), MaxRate>>, <<RInt(0), MaxRate>> >>

\* the bounds given to minimize: a (low, high) pair for each parameter
FitBounds(model) ==
    IF model = "logistic2"
    THEN << <<Unbounded, Unbounded>>, <<Tiny, Unbounded>> >>
    ELSE << <<Unbounded, Unbounded>>, <<Tiny, Unbounded>>,
            <<RInt(0), MaxRate>>, <<RInt(0), MaxRate>> >>

\* L-BFGS-B keeps every parameter within its bounds
WithinBounds(x, bounds) ==
    /\ Len(x) = Len(bounds)
    /\ \A i \in 1..Len(x) :
           /\ IsNaN(bounds[i][1]) \/ RGeq(x[i], bounds[i][1])
           /\ IsNaN(bounds[i][2]) \/ RLeq(x[i], bounds[i][2])

\* np.median of a non-empty sequence
Median(xs) ==
    LET sorted == Unkey(SortKeyed([i \in 1..Len(xs) |->
                                     [key |-> <<xs[i]>>, row |-> xs[i]]]))
        h      == Len(xs) \div 2
    IN  IF Len(xs) % 2 = 1 THEN sorted[h + 1]
        ELSE RDivInt(RAdd(sorted[h], sorted[h + 1]), 2)

\* the start vector of the search: the median center, a quarter of the center
\* range (at least 1e-3) and, with 4 parameters, rates of 0.02
StartVector(table, model) ==
    LET x      == Tup([i \in 1..Len(table) |-> table[i].center])
        hi     == CHOOSE v \in Range(x) : \A w \in Range(x) : RGeq(v, w)
        lo     == CHOOSE v \in Range(x) : \A w \in Range(x) : RLeq(v, w)
        quart  == RDivInt(RSub(hi, lo), 4)
        s_init == IF RLess(quart, Rat(1, 1000)) THEN Rat(1, 1000) ELSE quart
    IN  IF model = "logistic2" THEN <<Median(x), s_init>>
        ELSE <<Median(x), s_init, Rat(2, 100), Rat(2, 100)>>

\* inv_logit(p) of the 2-parameter fit
InvLogit(p, x0, s) ==
    LET pc == Clip(p, Tiny, RSub(RInt(1), Tiny))
    IN  RAdd(x0, RMul(s, Ln(RDiv(pc, RSub(RInt(1), pc)))))

\* max(1e-9, v): every v > 0 of the model has a denominator below 10^9 and
\* so is above 1e-9
AtLeastNano(v) == IF v.n > 0 THEN v ELSE Rat(1, 1000000000)

\* inv_logit4(p) of the 4-parameter fit
InvLogit4(p, x0, s, gamma, lam) ==
    LET pc == Clip(p, Tiny, RSub(RInt(1), Tiny))
        q  == RDiv(RSub(pc, gamma), AtLeastNano(RSub(RSub(RInt(1), gamma), lam)))
        qc == Clip(q, Tiny, RSub(RInt(1), Tiny))
    IN  RAdd(x0, RMul(s, Ln(RDiv(qc, RSub(RInt(1), qc)))))

\* the probabilities of the three reported thresholds
ThresholdLevels == <<Rat(5, 10), Rat(6, 10), Rat(7, 10)>>

\* a fit that raises when the search did not converge
FitRaisingOnFailure(a) ==
    IF ~a.scipy_installed THEN [status |-> "RuntimeError"]
    ELSE IF a.table = <<>> THEN [status |-> "ValueError"]
    ELSE IF ~a.res.success THEN [status |-> "RuntimeError"]
    ELSE IF a.model = "logistic2"
    THEN LET x0 == a.res.x[1]
             s  == a.res.x[2]
         IN  [status |-> "ok", model |-> a.model, params |-> a.res.x,
              success |-> a.res.success, message |-> a.res.message,
              x0 |-> x0, s |-> s,
              threshold_p50 |-> InvLogit(ThresholdLevels[1], x0, s),
              threshold_p60 |-> InvLogit(ThresholdLevels[2], x0, s),
              threshold_p70 |-> InvLogit(ThresholdLevels[3], x0, s)]
    ELSE LET x0    == a.res.x[1]
             s     == a.res.x[2]
             gamma == a.res.x[3]
             lam   == a.res.x[4]
         IN  [status |-> "ok", model |-> a.model, params |-> a.res.x,
              success |-> a.res.success, message |-> a.res.message,
              x0 |-> x0, s |-> s, gamma |-> gamma, lambda |-> lam,
              threshold_p50 |-> InvLogit4(ThresholdLevels[1], x0, s, gamma, lam),
              threshold_p60 |-> InvLogit4(ThresholdLevels[2], x0, s, gamma, lam),
              threshold_p70 |-> InvLogit4(ThresholdLevels[3], x0, s, gamma, lam)]

\* fit_psychometric_logistic(table, model) where SciPy is or is not installed
\* and minimize returns a.res.  Without SciPy the import raises; np.max of an
\* empty center column raises ValueError; every model name other than
\* 'logistic2' takes the 4-parameter branch
FitPsychometricLogistic(a) ==
    IF ~a.scipy_installed THEN [status |-> "RuntimeError"]
    ELSE IF a.table = <<>> THEN [status |-> "ValueError"]
    ELSE IF a.model = "logistic2"
    THEN LET x0 == a.res.x[1]
             s  == a.res.x[2]
         IN  [status |-> "ok", model |-> a.model, params |-> a.res.x,
              success |-> a.res.success, message |-> a.res.message,
              x0 |-> x0, s |-> s,
              threshold_p50 |-> InvLogit(ThresholdLevels[1], x0, s),
              threshold_p60 |-> InvLogit(ThresholdLevels[2], x0, s),
              threshold_p70 |-> InvLogit(ThresholdLevels[3], x0, s)]
    ELSE LET x0    == a.res.x[1]
             s     == a.res.x[2]
             gamma == a.res.x[3]
             lam   == a.res.x[4]
         IN  [status |-> "ok", model |-> a.model, params |-> a.res.x,
              success |-> a.res.success, message |-> a.res.message,
              x0 |-> x0, s |-> s, gamma |-> gamma, lambda |-> lam,
              threshold_p50 |-> InvLogit4(ThresholdLevels[1], x0, s, gamma, lam),
              threshold_p60 |-> InvLogit4(ThresholdLevels[2], x0, s, gamma, lam),
              threshold_p70 |-> InvLogit4(ThresholdLevels[3], x0, s, gamma, lam)]

(***************************************************************************)
(* The fit pipeline: a table, a model name, an environment with or without *)
(* SciPy and the result minimize is going to return are fixed, then the    *)
(* fit is called                                                           *)
(***************************************************************************)
\* an aggregated table without rows and one with three centers
FitTables ==
    { <<>>,
      << [center |-> RInt(-1), n_left |-> 0, n |-> 2],
         [center |-> RInt(0), n_left |-> 1, n |-> 2],
         [center |-> RInt(1), n_left |-> 2, n |-> 2] >> }

\* the two model names and an unsupported one
ModelNames == {"logistic2", "logistic4", "probit"}

\* parameter values a search may end at, within and outside the bounds
LocationValues == {RInt(-1), RInt(0), Rat(3, 2)}

SlopeValues == {RInt(-1), RInt(0), Rat(1, 10), Rat(1, 2), RInt(2)}

RateValues == {RInt(0), Rat(1, 50), Rat(1, 5), Rat(3, 10)}

\* the message L-BFGS-B reports
Message(success) ==
    IF success THEN "CONVERGENCE: REL_REDUCTION_OF_F_<=_FACTR*EPSMCH"
    ELSE "ABNORMAL_TERMINATION_IN_LNSRCH"

\* results of minimize with n parameters
SearchResults(n) ==
    {[x |-> IF n = 2 THEN <<v[1], v[2]>> ELSE v, success |-> ok, message |-> Message(ok)] :
        v \in LocationValues \X SlopeValues \X RateValues \X RateValues,
        ok \in BOOLEAN}

\* the number of parameters: the length of the start vector (2 or 4)
NumParams(model) == Len(StartVector(CHOOSE t \in FitTables : t # <<>>, model))

FitInputs ==
    UNION {[table : FitTables, model : {m}, scipy_installed : BOOLEAN,
            res : SearchResults(NumParams(m))] : m \in ModelNames}

InitFit ==
    /\ df = <<>>
    /\ pseOut = NotCalled
    /\ stimArgs = NoArgs
    /\ stimOut = NotCalled
    /\ mocs = <<>>
    /\ mocsOut = NotCalled
    /\ mocsRe = NotCalled
    /\ psyOut = NotCalled
    /\ fitArgs \in FitInputs
    /\ fitOut = NotCalled
    /\ curveArgs = NoArgs
    /\ curveOut = NotCalled
    /\ IdleAux

\* the call returns or raises; where minimize runs, its result is one that
\* L-BFGS-B can return for the start vector and the bounds
CallFit ==
    /\ fitOut.status = "none"
    /\ (fitArgs.scipy_installed /\ fitArgs.table # <<>>) =>
           /\ Len(fitArgs.res.x) = Len(StartVector(fitArgs.table, fitArgs.model))
           /\ WithinBounds(fitArgs.res.x, FitBounds(fitArgs.model))
    /\ fitOut' = FitPsychometricLogistic(fitArgs)
    /\ UNCHANGED <<df, pseOut, stimArgs, stimOut, mocs, mocsOut, mocsRe, psyOut,
                   fitArgs, curveArgs, curveOut, auxVars>>

NextFit == CallFit

SpecFit == InitFit /\ [][NextFit]_vars

(***************************************************************************)
(* Evaluation of the two curves at a point                                 *)
(***************************************************************************)
CurveInputs ==
    [x : {RInt(-1), RInt(0), RInt(1), RInt(2)}, x0 : {RInt(0), RInt(1)},
     s : {Rat(1, 2), RInt(1), RInt(2)},
     gamma : {RInt(0), Rat(1, 50), Rat(1, 5)},
     lam : {RInt(0), Rat(1, 50), Rat(1, 5)}]

InitCurve ==
    /\ df = <<>>
    /\ pseOut = NotCalled
    /\ stimArgs = NoArgs
    /\ stimOut = NotCalled
    /\ mocs = <<>>
    /\ mocsOut = NotCalled
    /\ mocsRe = NotCalled
    /\ psyOut = NotCalled
    /\ fitArgs = NoArgs
    /\ fitOut = NotCalled
    /\ curveArgs \in CurveInputs
    /\ curveOut = NotCalled
    /\ IdleAux

EvalCurves ==
    /\ curveOut.status = "none"
    /\ curveOut' =
           [status |-> "ok",
            logistic2 |-> Logistic2(curveArgs.x, curveArgs.x0, curveArgs.s),
            logistic4 |-> Logistic4(curveArgs.x, curveArgs.x0, curveArgs.s,
                                    curveArgs.gamma, curveArgs.lam)]
    /\ UNCHANGED <<df, pseOut, stimArgs, stimOut, mocs, mocsOut, mocsRe, psyOut,
                   fitArgs, fitOut, curveArgs, auxVars>>

NextCurve == EvalCurves

SpecCurve == InitCurve /\ [][NextCurve]_vars

(***************************************************************************)
(* The aggregation functions called on a data frame: a set of columns and  *)
(* rows with a cell for each column (a cell of an absent column is         *)
(* missing).  The caller's frame after a call is part of the result        *)
(***************************************************************************)
RequiredTrialCols == <<"trials.label", "trials.intensity">>

BlockCols == <<"blocks.thisRepN", "blocks.thisN">>

RequiredMocsCols == <<"type", "surr_type", "resp.keys", "center">>

\* only the label column is required
MissingTrialColsLabelOnly(f) ==
    SelectSeq(<<"trials.label">>, LAMBDA c : c \notin f.columns)

\* _ensure_required_trial_cols: the required columns the frame lacks
MissingTrialCols(f) == SelectSeq(RequiredTrialCols, LAMBDA c : c \notin f.columns)

\* _clean_mocs_df: the required columns the frame lacks
MissingMocsCols(f) == SelectSeq(RequiredMocsCols, LAMBDA c : c \notin f.columns)

\* the cell of a row in a block column
BlockCell(r, c) == IF c = "blocks.thisRepN" THEN r.repN ELSE r.thisN

\* a block column is usable when the frame has it with a value on some row
Usable(f, c) ==
    c \in f.columns /\ \E i \in 1..Len(f.rows) : ~IsNaN(BlockCell(f.rows[i], c))

\* blocks.thisN tried before blocks.thisRepN
InferBlockColumnThisNFirst(f) ==
    IF Usable(f, BlockCols[2]) THEN BlockCols[2]
    ELSE IF Usable(f, BlockCols[1]) THEN BlockCols[1]
    ELSE "None"

\* _infer_block_column(df): the first usable block column
InferBlockColumn(f) ==
    IF Usable(f, BlockCols[1]) THEN BlockCols[1]
    ELSE IF Usable(f, BlockCols[2]) THEN BlockCols[2]
    ELSE "None"

\* stands for the block_id 'NA' of the rows without a block value; above
\* every block number
NaBlock == 99

\* the rows with their _block_id: 0 without a block column, else the cell of
\* the block column
TrialLog(f) ==
    LET c == InferBlockColumn(f)
    IN  Tup([i \in 1..Len(f.rows) |->
            [label |-> f.rows[i].label,
             intensity |-> f.rows[i].intensity,
             block |-> IF c = "None" THEN 0
                       ELSE IF IsNaN(BlockCell(f.rows[i], c)) THEN NaBlock
                       ELSE BlockCell(f.rows[i], c).n]])

\* the function working on the caller's frame instead of a copy: rows
\* dropped and columns added in place
FrameAfterPseInPlace(f) ==
    [columns |-> f.columns \cup {"surround", "_block_id"},
     rows |-> SelectSeq(f.rows, LAMBDA r : r.label # NoLabel /\ ~IsNaN(r.intensity))]

\* the caller's frame after pse_last_k_per_block_per_condition: the function
\* works on dropna(...).copy()
FrameAfterPse(f) == f

\* the caller's frame after analyze_mocs or mocs_psychometric_tables: they
\* work on df.copy()
FrameAfterMocs(f) == f

\* the caller's arguments after make_stimuli_from_pse: pse_by_condition is
\* only read
ArgsAfterMake(a) == a

\* pse_last_k_per_block_per_condition on a frame: the results the call can
\* have.  When some rows have a block number and others none, block_id mixes
\* numbers with 'NA': sort_values either raises TypeError or puts 'NA' last
PseLastKOnFrame(f, k) ==
    IF MissingTrialCols(f) # <<>>
    THEN {[status |-> "ValueError", k |-> k, per_block |-> NoTable,
           coll |-> NoTable, df |-> f]}
    ELSE LET log    == TrialLog(f)
             out    == PseLastK(log, k)
             d      == DropNa(log)
             blocks == {d[i].block : i \in 1..Len(d)}
             done   == [status |-> out.status, k |-> k, per_block |-> out.per_block,
                        coll |-> out.coll, df |-> FrameAfterPse(f)]
         IN  IF NaBlock \in blocks /\ blocks # {NaBlock}
             THEN {done, [status |-> "TypeError", k |-> k, per_block |-> NoTable,
                          coll |-> NoTable, df |-> FrameAfterPse(f)]}
             ELSE {done}

\* the frame without its rows that lack a label or an intensity
WithoutInvalidRows(f) ==
    IF MissingTrialCols(f) # <<>> THEN f
    ELSE [columns |-> f.columns,
          rows |-> SelectSeq(f.rows, LAMBDA r : r.label # NoLabel /\ ~IsNaN(r.intensity))]

\* analyze_mocs on a frame
AnalyzeMocsOnFrame(f) ==
    IF MissingMocsCols(f) # <<>>
    THEN [status |-> "ValueError", comb_out |-> NoTable, separate |-> NoTable,
          df |-> f]
    ELSE LET out == AnalyzeMocs(f.rows)
         IN  [status |-> out.status, comb_out |-> out.comb_out,
              separate |-> out.separate, df |-> FrameAfterMocs(f)]

\* mocs_psychometric_tables on a frame
PsychometricTablesOnFrame(f) ==
    IF MissingMocsCols(f) # <<>>
    THEN [status |-> "ValueError", tables |-> <<>>, df |-> f]
    ELSE LET out == MocsPsychometricTables(f.rows)
         IN  [status |-> out.status, tables |-> out.tables, df |-> FrameAfterMocs(f)]

\* staircase rows: the two block columns agree, disagree or are empty; rows
\* with a missing label or intensity that carry a block number
TrialFrameRows ==
    [label : {<<"stair", "noss">>}, intensity : {RInt(1)},
     repN : {RInt(0), RInt(1), NaN}, thisN : {RInt(0)}]
    \cup { [label |-> <<"stair", "noss">>, intensity |-> RInt(1),
            repN |-> NaN, thisN |-> NaN],
           [label |-> <<"stair", "poss">>, intensity |-> RInt(4),
            repN |-> RInt(0), thisN |-> RInt(1)],
           [label |-> <<"stair", "poss">>, intensity |-> RInt(4),
            repN |-> NaN, thisN |-> NaN],
           [label |-> NoLabel, intensity |-> RInt(4),
            repN |-> RInt(0), thisN |-> RInt(0)],
           [label |-> <<"stair", "noss">>, intensity |-> NaN,
            repN |-> RInt(1), thisN |-> RInt(1)] }

\* MoCS rows: counted rows, one of them without a center, and a timeout
MocsFrameRows ==
    { [type |-> "PSE", surr_type |-> "poss", resp |-> "left", center |-> Rat(1, 2)],
      [type |-> "PSE", surr_type |-> "poss", resp |-> "right", center |-> NaN],
      [type |-> "PSE", surr_type |-> "noss", resp |-> "left", center |-> RInt(1)],
      [type |-> "m1", surr_type |-> "poss", resp |-> "timeout", center |-> Rat(1, 2)] }

\* the sequences over S of length at most n
SeqsUpTo(S, n) == UNION {[1..m -> S] : m \in 0..n}

\* the frames: staircase frames with the required columns and every choice
\* of block columns, or with one required column absent; MoCS frames with
\* the required columns or with one of them absent.  A row is held as the
\* frame holds it: the cells of absent columns are missing
Frames ==
    LET TrialColumnSets ==
            {Range(RequiredTrialCols) \cup b : b \in SUBSET Range(BlockCols)}
            \cup {(Range(RequiredTrialCols) \ {c}) \cup Range(BlockCols) :
                     c \in Range(RequiredTrialCols)}
        MocsColumnSets ==
            {Range(RequiredMocsCols)}
            \cup {Range(RequiredMocsCols) \ {c} : c \in Range(RequiredMocsCols)}
        MaskTrialRow(r, cols) ==
            [label |-> IF "trials.label" \in cols THEN r.label ELSE NoLabel,
             intensity |-> IF "trials.intensity" \in cols THEN r.intensity ELSE NaN,
             repN |-> IF "blocks.thisRepN" \in cols THEN r.repN ELSE NaN,
             thisN |-> IF "blocks.thisN" \in cols THEN r.thisN ELSE NaN]
        MaskMocsRow(r, cols) ==
            [type |-> IF "type" \in cols THEN r.type ELSE NoKey,
             surr_type |-> IF "surr_type" \in cols THEN r.surr_type ELSE NoKey,
             resp |-> IF "resp.keys" \in cols THEN r.resp ELSE NoKey,
             center |-> IF "center" \in cols THEN r.center ELSE NaN]
    IN  {[columns |-> cols,
          rows |-> Tup([i \in 1..Len(rows) |-> MaskTrialRow(rows[i], cols)])] :
            cols \in TrialColumnSets, rows \in SeqsUpTo(TrialFrameRows, MaxFrame)}
        \cup
        {[columns |-> cols,
          rows |-> Tup([i \in 1..Len(rows) |-> MaskMocsRow(rows[i], cols)])] :
            cols \in MocsColumnSets, rows \in SeqsUpTo(MocsFrameRows, MaxFrame)}

InitFrame ==
    /\ df = <<>>
    /\ pseOut = NotCalled
    /\ stimArgs = NoArgs
    /\ stimOut = NotCalled
    /\ mocs = <<>>
    /\ mocsOut = NotCalled
    /\ mocsRe = NotCalled
    /\ psyOut = NotCalled
    /\ IdleFit
    /\ frame \in Frames
    /\ frameOut = NotCalled
    /\ sess = NotCalled
    /\ trial = NotCalled

\* pse_last_k_per_block_per_condition(frame, k), and the same call on the
\* frame without its invalid rows
CallPseLastKOnFrame(k) ==
    /\ frameOut.status = "none"
    /\ \E out \in PseLastKOnFrame(frame, k) :
           /\ frameOut' = [status |-> "pse", pse |-> out,
                           clean |-> PseLastKOnFrame(WithoutInvalidRows(frame), k)]
           /\ frame' = out.df
    /\ UNCHANGED <<df, pseOut, stimArgs, stimOut, mocs, mocsOut, mocsRe, psyOut,
                   fitVars, sess, trial>>

\* analyze_mocs(frame), then mocs_psychometric_tables(frame)
CallMocsOnFrame ==
    /\ frameOut.status = "none"
    /\ LET a == AnalyzeMocsOnFrame(frame)
           t == PsychometricTablesOnFrame(a.df)
       IN  /\ frameOut' = [status |-> "mocs", analyze |-> a, tables |-> t]
           /\ frame' = t.df
    /\ UNCHANGED <<df, pseOut, stimArgs, stimOut, mocs, mocsOut, mocsRe, psyOut,
                   fitVars, sess, trial>>

\* make_stimuli_from_pse on the map of the collapsed table, as
\* build_trials_from_staircase calls it
CallMakeOnCollapsed ==
    /\ frameOut.status = "pse"
    /\ frameOut.pse.status = "ok"
    /\ stimOut.status = "none"
    /\ LET a == [pse_by_condition |-> PseMap(frameOut.pse.coll),
                 step |-> DefaultStep,
                 surround_mag |-> DefaultSurroundMag,
                 reps_poss_negs |-> DefaultReps,
                 reps_noss |-> DefaultReps,
                 n_conditions |-> DefaultNConditions]
       IN  /\ stimOut' = MakeStimuli(a)
           /\ stimArgs' = ArgsAfterMake(a)
    /\ UNCHANGED <<df, pseOut, mocs, mocsOut, mocsRe, psyOut, fitVars, auxVars>>

NextFrame ==
    \/ \E k \in 1..MaxK : CallPseLastKOnFrame(k)
    \/ CallMocsOnFrame
    \/ CallMakeOnCollapsed

SpecFrame == InitFrame /\ [][NextFrame]_vars

(***************************************************************************)
(* Start of the presentation program (load_stims, 'Begin Experiment'):     *)
(* in session 0 the baseline stimulus file is built from the staircase     *)
(* log when it is absent; the trial loop imports the file                  *)
(***************************************************************************)
MaxRuns == 2       \* most starts of the presentation program

\* k of build_trials_from_staircase when the caller passes none
DefaultK == 6

\* for file in data_files: if 'csv' in file: stair_data = ...; break
FirstCsv(files) ==
    LET ContainsCsv(name) == name \in {"stair.csv", "stair_2.csv"}
    IN  SelectSeq(files, LAMBDA f : ContainsCsv(f.name))

\* stim.to_csv(out_csv, index=False): a cell of a float column is the
\* number's text, a missing number is an empty cell
ToCsv(rows) ==
    LET ToCsvCell(x) == IF IsNaN(x) THEN [blank |-> TRUE, text |-> Zero]
                        ELSE [blank |-> FALSE, text |-> x]
    IN  Tup([i \in 1..Len(rows) |->
            [center |-> ToCsvCell(rows[i].center),
             surround |-> ToCsvCell(rows[i].surround),
             type |-> rows[i].type, surr_type |-> rows[i].surr_type,
             surr_opacity |-> rows[i].surr_opacity]])

\* data.importConditions(mocs_stims): the rows of the file as trial
\* parameters, an empty cell read as a missing number
ImportConditions(rows) ==
    LET FromCsvCell(c) == IF c.blank THEN NaN ELSE c.text
    IN  Tup([i \in 1..Len(rows) |->
            [center |-> FromCsvCell(rows[i].center),
             surround |-> FromCsvCell(rows[i].surround),
             type |-> rows[i].type, surr_type |-> rows[i].surr_type,
             surr_opacity |-> rows[i].surr_opacity]])

NoFile == [exists |-> FALSE, rows |-> <<>>]

\* the stimulus file is built at every start of session 0
StimFileNeededAlways(file) == TRUE

\* os.path.exists(baseline_stim_path) == False
StimFileNeeded(file) == ~file.exists

\* the staircase directory is listed, the first csv file is read and
\* build_trials_from_staircase writes the stimulus file; an exception ends
\* the program before anything is written
BuildBaselineStims(dir) ==
    IF ~dir.exists
    THEN [status |-> "FileNotFoundError", file |-> NoFile]
    ELSE IF FirstCsv(dir.files) = <<>>
    THEN [status |-> "UnboundLocalError", file |-> NoFile]
    ELSE LET pse == PseLastK(Head(FirstCsv(dir.files)).log, DefaultK)
         IN  IF pse.status # "ok"
             THEN [status |-> pse.status, file |-> NoFile]
             ELSE LET stim == MakeStimuli(
                                  [pse_by_condition |-> PseMap(pse.coll),
                                   step |-> DefaultStep,
                                   surround_mag |-> DefaultSurroundMag,
                                   reps_poss_negs |-> SessionRepsPossNegs,
                                   reps_noss |-> SessionRepsNoss,
                                   n_conditions |-> SessionNConditions])
                  IN  IF stim.status # "ok"
                      THEN [status |-> stim.status, file |-> NoFile]
                      ELSE [status |-> "ok",
                            file |-> [exists |-> TRUE, rows |-> ToCsv(stim.rows)]]

\* staircase logs: no row, trials of one condition, trials of all three
\* conditions with two different poss intensities
SessionLogs ==
    { <<>>,
      <<[label |-> <<"stair", "noss">>, intensity |-> RInt(1), block |-> 0]>>,
      <<[label |-> <<"stair", "noss">>, intensity |-> RInt(1), block |-> 0],
        [label |-> <<"stair", "poss">>, intensity |-> RInt(4), block |-> 0],
        [label |-> <<"stair", "negs">>, intensity |-> RInt(4), block |-> 0]>>,
      <<[label |-> <<"stair", "noss">>, intensity |-> RInt(1), block |-> 0],
        [label |-> <<"stair", "poss">>, intensity |-> RInt(1), block |-> 0],
        [label |-> <<"stair", "negs">>, intensity |-> RInt(4), block |-> 0]>> }

\* the files of the staircase data directory
StaircaseFiles ==
    [name : {"stair.csv"}, log : SessionLogs]
    \cup {[name |-> "stair.psydat", log |-> <<>>]}

InitSession ==
    /\ df = <<>>
    /\ pseOut = NotCalled
    /\ stimArgs = NoArgs
    /\ stimOut = NotCalled
    /\ mocs = <<>>
    /\ mocsOut = NotCalled
    /\ mocsRe = NotCalled
    /\ psyOut = NotCalled
    /\ IdleFit
    /\ frame = NotCalled
    /\ frameOut = NotCalled
    /\ trial = NotCalled
    /\ \E dir \in {[exists |-> FALSE, files |-> <<>>]}
                  \cup [exists : {TRUE}, files : SeqsUpTo(StaircaseFiles, 1)] :
           sess = [dir |-> dir, stimFile |-> NoFile, written |-> <<>>,
                   runs |-> 0, ses |-> 0, phase |-> "off",
                   mocs_stims |-> "", trialList |-> <<>>]

\* the staircase program writes one more file into its data directory; the
\* listing returns it at any position
WriteStaircaseFile(file, pos) ==
    /\ sess.phase \in {"off", "failed"}
    /\ sess.dir.exists
    /\ Len(sess.dir.files) < 2
    /\ pos \in 1..(Len(sess.dir.files) + 1)
    /\ sess' = [sess EXCEPT !.dir.files = InsertAt(@, pos, file)]
    /\ UNCHANGED <<df, pseOut, stimArgs, stimOut, mocs, mocsOut, mocsRe, psyOut,
                   fitVars, frame, frameOut, trial>>

\* 'Begin Experiment' of load_stims for session ses
BeginExperiment(ses) ==
    /\ sess.phase \in {"off", "failed"}
    /\ sess.runs < MaxRuns
    /\ IF ses = 0
       THEN IF StimFileNeeded(sess.stimFile)
            THEN LET built == BuildBaselineStims(sess.dir)
                 IN  sess' = [sess EXCEPT
                         !.runs = @ + 1, !.ses = ses,
                         !.stimFile = IF built.status = "ok" THEN built.file ELSE @,
                         !.written = IF built.status = "ok"
                                     THEN Append(@, built.file.rows) ELSE @,
                         !.phase = IF built.status = "ok" THEN "begun" ELSE "failed",
                         !.mocs_stims = IF built.status = "ok"
                                        THEN "baseline_stim_path" ELSE "",
                         !.trialList = <<>>]
            ELSE sess' = [sess EXCEPT !.runs = @ + 1, !.ses = ses,
                                      !.phase = "begun",
                                      !.mocs_stims = "baseline_stim_path",
                                      !.trialList = <<>>]
       ELSE sess' = [sess EXCEPT !.runs = @ + 1, !.ses = ses, !.phase = "begun",
                                 !.mocs_stims = "", !.trialList = <<>>]
    /\ UNCHANGED <<df, pseOut, stimArgs, stimOut, mocs, mocsOut, mocsRe, psyOut,
                   fitVars, frame, frameOut, trial>>

\* trialList=data.importConditions(mocs_stims): the stimulus file is read;
\* with mocs_stims = '' there is no file to read
ImportTrialList ==
    /\ sess.phase = "begun"
    /\ IF sess.mocs_stims = "baseline_stim_path"
       THEN sess' = [sess EXCEPT !.phase = "trials",
                                 !.trialList = ImportConditions(sess.stimFile.rows)]
       ELSE sess' = [sess EXCEPT !.phase = "failed"]
    /\ UNCHANGED <<df, pseOut, stimArgs, stimOut, mocs, mocsOut, mocsRe, psyOut,
                   fitVars, frame, frameOut, trial>>

\* the program ends: the trials are done or the experimenter quits
EndExperiment ==
    /\ sess.phase \in {"begun", "trials"}
    /\ sess' = [sess EXCEPT !.phase = "off"]
    /\ UNCHANGED <<df, pseOut, stimArgs, stimOut, mocs, mocsOut, mocsRe, psyOut,
                   fitVars, frame, frameOut, trial>>

NextSession ==
    \/ \E file \in StaircaseFiles : \E pos \in 1..2 : WriteStaircaseFile(file, pos)
    \/ \E ses \in {0, 1, 2} : BeginExperiment(ses)
    \/ ImportTrialList
    \/ EndExperiment

SpecSession == InitSession /\ [][NextSession]_vars

(***************************************************************************)
(* Routine "trial" of the presentation program: one action for the start   *)
(* of the routine and one for each pass of its frame loop (times in ms)    *)
(***************************************************************************)
MaxFrames == 4     \* most passes of the frame loop in one routine
MaxTrials == 2     \* most trials of the loop 'trials'

\* frameTolerance = 0.001
FrameTolerance == 1

\* onset of the gratings (0.5 s), their duration (0.08 s), onset of text_4
\* (0.58 s), onset of resp (0.0 s)
GratingStart == 500

GratingDuration == 80

TextStart == 580

RespStart == 0

\* endExpNow = False, never assigned again
endExpNow == FALSE

\* resp.getKeys(keyList=['left','right'], ignoreKeys=["escape"])
KeyList == {"left", "right"}

\* the key presses of keyList among those typed, in order
GetKeys(typed) == SelectSeq(typed, LAMBDA key : key \in KeyList)

\* the routine goes on while a grating is not finished (resp and text_4 are
\* not looked at)
AnyGratingRunning(c) == c.surround_grating # "FINISHED" \/ c.center_grating # "FINISHED"

\* for thisComponent in trial.components: if thisComponent.status !=
\* FINISHED: continueRoutine = True
AnyComponentRunning(c) ==
    \E comp \in {"surround_grating", "center_grating", "resp", "text_4"} :
        c[comp] # "FINISHED"

\* thisTrial.thisN != trials.thisTrial.thisN
TrialChanged(thisN, handlerN) == thisN # handlerN

\* a grating in one pass: started at its onset, stopped once the flip is
\* later than its start by its duration
GratingStatus(status, tStart, tThisFlip) ==
    LET started == IF status = "NOT_STARTED" /\ tThisFlip >= GratingStart - FrameTolerance
                   THEN "STARTED" ELSE status
        start   == IF status = "NOT_STARTED" /\ started = "STARTED"
                   THEN tThisFlip ELSE tStart
    IN  [status |-> IF started = "STARTED"
                       /\ tThisFlip > start + GratingDuration - FrameTolerance
                    THEN "FINISHED" ELSE started,
         tStart |-> start]

InitTrial ==
    /\ df = <<>>
    /\ pseOut = NotCalled
    /\ stimArgs = NoArgs
    /\ stimOut = NotCalled
    /\ mocs = <<>>
    /\ mocsOut = NotCalled
    /\ mocsRe = NotCalled
    /\ psyOut = NotCalled
    /\ IdleFit
    /\ frame = NotCalled
    /\ frameOut = NotCalled
    /\ sess = NotCalled
    /\ trial = [phase |-> "idle", thisN |-> 0, frameN |-> -1, tThisFlip |-> 0,
                status |-> [surround_grating |-> "NOT_STARTED",
                            center_grating |-> "NOT_STARTED",
                            resp |-> "NOT_STARTED", text_4 |-> "NOT_STARTED"],
                tStart |-> 0, keys |-> "", allKeys |-> <<>>,
                continueRoutine |-> FALSE, expStatus |-> "STARTED",
                logged |-> <<>>]

\* 'Prepare to start Routine "trial"' and, when the routine is over before
\* its first frame, 'Ending Routine "trial"'
BeginRoutine ==
    /\ trial.phase \in {"idle", "ended"}
    /\ trial.expStatus # "FINISHED"
    /\ trial.thisN < MaxTrials
    /\ LET continue == ~TrialChanged(trial.thisN + 1, trial.thisN + 1)
       IN  trial' = [trial EXCEPT
               !.phase = IF continue THEN "running" ELSE "ended",
               !.thisN = @ + 1, !.frameN = -1, !.tThisFlip = 0,
               !.status = [comp \in DOMAIN @ |-> "NOT_STARTED"],
               !.tStart = 0, !.keys = "", !.allKeys = <<>>,
               !.continueRoutine = continue,
               !.logged = IF continue THEN @ ELSE Append(@, "None")]
    /\ UNCHANGED <<df, pseOut, stimArgs, stimOut, mocs, mocsOut, mocsRe, psyOut,
                   fitVars, frame, frameOut, sess>>

\* one pass of 'while continueRoutine': the components are updated, the
\* keys are read, quit and pause are checked; when the loop ends, 'Ending
\* Routine "trial"' logs resp.keys
RunFrame(dt, typed, escape, given, resumed) ==
    /\ trial.phase = "running"
    /\ trial.frameN < MaxFrames
    /\ LET frameN    == trial.frameN + 1
           tThisFlip == IF frameN = 0 THEN 0 ELSE trial.tThisFlip + dt
           surround  == GratingStatus(trial.status.surround_grating, trial.tStart,
                                      tThisFlip)
           center    == GratingStatus(trial.status.center_grating, trial.tStart,
                                      tThisFlip)
           waitOnFlip == /\ trial.status.resp = "NOT_STARTED"
                         /\ tThisFlip >= RespStart - FrameTolerance
           resp      == IF waitOnFlip THEN "STARTED" ELSE trial.status.resp
           allKeys   == IF resp = "STARTED" /\ ~waitOnFlip
                        THEN trial.allKeys \o GetKeys(typed) ELSE trial.allKeys
           keys      == IF allKeys # <<>> THEN allKeys[Len(allKeys)] ELSE trial.keys
           answered  == resp = "STARTED" /\ ~waitOnFlip /\ allKeys # <<>>
           text      == IF trial.status.text_4 = "NOT_STARTED"
                           /\ tThisFlip >= TextStart - FrameTolerance
                        THEN "STARTED" ELSE trial.status.text_4
           status    == [surround_grating |-> surround.status,
                         center_grating |-> center.status,
                         resp |-> resp, text_4 |-> text]
           expStatus == IF escape \/ trial.expStatus = "FINISHED" THEN "FINISHED"
                        ELSE given
           paused    == expStatus = "PAUSED"
           continue  == IF answered THEN FALSE
                        ELSE IF paused THEN TRUE
                        ELSE AnyComponentRunning(status)
           seen      == [trial EXCEPT !.frameN = frameN, !.tThisFlip = tThisFlip,
                                      !.status = status, !.tStart = surround.tStart,
                                      !.keys = keys, !.allKeys = allKeys]
       IN  IF expStatus = "FINISHED" \/ endExpNow
           THEN \* endExperiment(thisExp, win=win); return
                trial' = [seen EXCEPT !.phase = "quit", !.expStatus = "FINISHED",
                                      !.continueRoutine = ~answered]
           ELSE IF continue
           THEN trial' = [seen EXCEPT !.continueRoutine = TRUE,
                                      !.expStatus = IF paused THEN resumed ELSE given]
           ELSE trial' = [seen EXCEPT
                    !.phase = "ended", !.continueRoutine = FALSE,
                    !.expStatus = IF paused THEN resumed ELSE given,
                    !.logged = Append(@, IF keys = "" THEN "None" ELSE keys)]
    /\ UNCHANGED <<df, pseOut, stimArgs, stimOut, mocs, mocsOut, mocsRe, psyOut,
                   fitVars, frame, frameOut, sess>>

\* a pass of the frame loop for each time between two flips (ms), each run
\* of keys typed meanwhile, escape pressed or not, and each status the
\* experiment handler is given from outside
NextTrial ==
    \/ BeginRoutine
    \/ \E dt \in {250, 400} :
       \E typed \in {<<>>, <<"left">>, <<"right">>, <<"right", "left">>, <<"space">>} :
       \E escape \in BOOLEAN :
       \E given \in {"STARTED", "PAUSED", "FINISHED"} :
       \E resumed \in {"STARTED", "FINISHED"} :
           RunFrame(dt, typed, escape, given, resumed)

SpecTrial == InitTrial /\ [][NextTrial]_vars

(***************************************************************************)
(* Properties of the staircase aggregation (checked under SpecStair)       *)
(***************************************************************************)
\* the rows of the log that have a label and an intensity
AnalyzedRows == SelectSeq(df, LAMBDA r : r.label # <<>> /\ r.intensity.d # 0)

\* the intensities, in log order, of the analyzed rows of a block whose label
\* ends in the condition tag
GroupIntensities(bid, cond) ==
    LET g == SelectSeq(AnalyzedRows, LAMBDA r :
                r.block = bid /\ r.label[Len(r.label)] = cond)
    IN  Tup([i \in 1..Len(g) |-> g[i].intensity])

\* C1: every per-block row has n_used = min(k, n_trials_available), and its
\* mean_last_k is the arithmetic mean of the intensities of exactly the last
\* n_used rows of its (block, condition) group in log order (undefined when the
\* group is empty)
C1_LastKMeanInLogOrder ==
    pseOut.status = "ok" =>
        \A i \in 1..Len(pseOut.per_block) :
            LET row == pseOut.per_block[i]
                g   == GroupIntensities(row.block_id, row.condition)
                m   == IF pseOut.k < Len(g) THEN pseOut.k ELSE Len(g)
            IN  /\ row.n_trials_available = Len(g)
                /\ row.n_used = m
                /\ IF m = 0 THEN IsNaN(row.mean_last_k)
                   ELSE /\ ~IsNaN(row.mean_last_k)
                        /\ RMul(row.mean_last_k, RInt(m))
                             = RSum(SubSeq(g, Len(g) - m + 1, Len(g)))

\* a group longer than k whose last row is smaller than its first one, so that
\* the last rows in log order are not the largest ones
C1_Witness ==
    /\ pseOut.status = "ok"
    /\ \E i \in 1..Len(pseOut.per_block) :
          LET row == pseOut.per_block[i]
              g   == GroupIntensities(row.block_id, row.condition)
          IN  /\ row.n_trials_available > row.n_used
              /\ row.n_used >= 1
              /\ RLess(g[Len(g)], g[1])

\* the per-block rows of a condition whose mean is defined
DefinedBlocks(cond) ==
    SelectSeq(pseOut.per_block, LAMBDA r : r.condition = cond /\ r.mean_last_k.d # 0)

\* C2: the collapsed PSE of a condition is the unweighted mean of the defined
\* per-block means (undefined when there is none), and n_blocks_used is the
\* number of blocks whose mean is defined
C2_UnweightedMeanOverBlocks ==
    pseOut.status = "ok" =>
        /\ {pseOut.coll[i].condition : i \in 1..Len(pseOut.coll)}
              = {"noss", "poss", "negs"}
        /\ \A i \in 1..Len(pseOut.coll) :
              LET c     == pseOut.coll[i]
                  b     == DefinedBlocks(c.condition)
                  means == Tup([j \in 1..Len(b) |-> b[j].mean_last_k])
              IN  /\ c.n_blocks_used = Len(b)
                  /\ IF Len(b) = 0 THEN IsNaN(c.PSE)
                     ELSE /\ ~IsNaN(c.PSE)
                          /\ RMul(c.PSE, RInt(Len(b))) = RSum(means)

\* a condition with two contributing blocks that differ in n_used and in mean
C2_Witness ==
    /\ pseOut.status = "ok"
    /\ \E c \in {"noss", "poss", "negs"} :
          \E j1, j2 \in 1..Len(DefinedBlocks(c)) :
              /\ DefinedBlocks(c)[j1].n_used # DefinedBlocks(c)[j2].n_used
              /\ DefinedBlocks(c)[j1].mean_last_k # DefinedBlocks(c)[j2].mean_last_k

\* C3: when a condition has no contributing block its collapsed PSE is
\* undefined, and the stimulus-set builder invoked with that PSE map fails and
\* returns no table
C3_UndefinedPseRejected ==
    (/\ pseOut.status = "ok"
     /\ stimOut.status # "none"
     /\ \E i \in 1..Len(pseOut.coll) : pseOut.coll[i].n_blocks_used = 0)
    => /\ \A i \in 1..Len(pseOut.coll) :
             pseOut.coll[i].n_blocks_used = 0 => IsNaN(pseOut.coll[i].PSE)
       /\ stimOut.status # "ok"
       /\ stimOut.rows = NoTable

(***************************************************************************)
(* Properties of the stimulus-set builder (checked under SpecStim)         *)
(***************************************************************************)
\* the signed step multiple of an offset label
StepMultiple(label) ==
    CASE label = "m3" -> -3 [] label = "m2" -> -2 [] label = "m1" -> -1
      [] label = "PSE" -> 0
      [] label = "p1" -> 1 [] label = "p2" -> 2 [] label = "p3" -> 3

\* the PSE of a condition moved by the offset of a label
OffsetPse(cond, label) ==
    RAdd(stimArgs.pse_by_condition[cond], RMul(RInt(StepMultiple(label)), stimArgs.step))

StimRows(surr_type) == SelectSeq(stimOut.rows, LAMBDA r : r.surr_type = surr_type)

\* C4: every poss row has center = |PSE_poss + offset(type)|, which is
\* non-negative for a defined PSE, surround = +|surround_mag| and
\* surr_opacity = 100
C4_PossRows ==
    stimOut.status = "ok" =>
        \A i \in 1..Len(StimRows("poss")) :
            LET r == StimRows("poss")[i]
            IN  /\ r.center = RAbs(OffsetPse("poss", r.type))
                /\ ~IsNaN(stimArgs.pse_by_condition["poss"]) => RGeq(r.center, Zero)
                /\ r.surround = RAbs(stimArgs.surround_mag)
                /\ RGeq(r.surround, Zero)
                /\ r.surr_opacity = 100

\* a poss row whose offset PSE is negative, with a negative surround_mag
C4_Witness ==
    /\ stimOut.status = "ok"
    /\ RLess(stimArgs.surround_mag, Zero)
    /\ \E i \in 1..Len(StimRows("poss")) :
          RLess(OffsetPse("poss", StimRows("poss")[i].type), Zero)

\* C5: every negs row has center = -|PSE_negs + offset(type)|, which is
\* non-positive for a defined PSE, surround = -|surround_mag| and
\* surr_opacity = 100
C5_NegsRows ==
    stimOut.status = "ok" =>
        \A i \in 1..Len(StimRows("negs")) :
            LET r == StimRows("negs")[i]
            IN  /\ r.center = RNeg(RAbs(OffsetPse("negs", r.type)))
                /\ ~IsNaN(stimArgs.pse_by_condition["negs"]) => RLeq(r.center, Zero)
                /\ r.surround = RNeg(RAbs(stimArgs.surround_mag))
                /\ RLeq(r.surround, Zero)
                /\ r.surr_opacity = 100

\* a negs row whose offset PSE is positive, with a negative surround_mag
C5_Witness ==
    /\ stimOut.status = "ok"
    /\ RLess(stimArgs.surround_mag, Zero)
    /\ \E i \in 1..Len(StimRows("negs")) :
          RLess(Zero, OffsetPse("negs", StimRows("negs")[i].type))

\* C6: the sign of the noss rows is chosen once from PSE_noss: for
\* PSE_noss >= 0 every noss center is +|PSE_noss + offset| >= 0, for
\* PSE_noss < 0 every noss center is -|PSE_noss + offset| <= 0; every noss row
\* has surround = 0 and surr_opacity = 0, and no poss or negs row has
\* surr_opacity = 0
C6_NossRows ==
    stimOut.status = "ok" =>
        /\ \A i \in 1..Len(StimRows("noss")) :
              LET r   == StimRows("noss")[i]
                  pse == stimArgs.pse_by_condition["noss"]
              IN  /\ RGeq(pse, Zero) =>
                        r.center = RAbs(OffsetPse("noss", r.type)) /\ RGeq(r.center, Zero)
                  /\ RLess(pse, Zero) =>
                        r.center = RNeg(RAbs(OffsetPse("noss", r.type)))
                        /\ RLeq(r.center, Zero)
                  /\ r.surround = Zero
                  /\ r.surr_opacity = 0
        /\ \A i \in 1..Len(stimOut.rows) :
              stimOut.rows[i].surr_type \in {"poss", "negs"}
                  => stimOut.rows[i].surr_opacity # 0

\* a table with poss and negs rows and a noss row of a non-negative PSE whose
\* offset PSE is negative and whose center is positive all the same
C6_Witness ==
    /\ stimOut.status = "ok"
    /\ stimArgs.reps_poss_negs > 0
    /\ RGeq(stimArgs.pse_by_condition["noss"], Zero)
    /\ \E i \in 1..Len(StimRows("noss")) :
          LET r == StimRows("noss")[i]
          IN  /\ RLess(OffsetPse("noss", r.type), Zero)
              /\ RLess(Zero, r.center)

\* the offset labels of the L-level vocabulary
Vocabulary(L) ==
    IF L = 5 THEN {"m2", "m1", "PSE", "p1", "p2"}
    ELSE {"m3", "m2", "m1", "PSE", "p1", "p2", "p3"}

NumRows(surr_type, label) ==
    Len(SelectSeq(stimOut.rows, LAMBDA r : r.surr_type = surr_type /\ r.type = label))

\* C7: the table holds reps_poss_negs rows per (poss, label) and (negs, label)
\* and reps_noss rows per (noss, label), for the labels of the L-level
\* vocabulary and no other, hence L * (2 * reps_poss_negs + reps_noss) rows:
\* 15 for L = 5 with all reps 1, 700 for the session-0 call
C7_RowCounts ==
    stimOut.status = "ok" =>
        LET L == stimArgs.n_conditions
        IN  /\ Cardinality(Vocabulary(L)) = L
            /\ \A i \in 1..Len(stimOut.rows) :
                  /\ stimOut.rows[i].type \in Vocabulary(L)
                  /\ stimOut.rows[i].surr_type \in {"poss", "negs", "noss"}
            /\ \A label \in Vocabulary(L) :
                  /\ NumRows("poss", label) = stimArgs.reps_poss_negs
                  /\ NumRows("negs", label) = stimArgs.reps_poss_negs
                  /\ NumRows("noss", label) = stimArgs.reps_noss
            /\ Len(stimOut.rows) = L * (2 * stimArgs.reps_poss_negs + stimArgs.reps_noss)
            /\ (L = 5 /\ stimArgs.reps_poss_negs = 1 /\ stimArgs.reps_noss = 1)
                  => Len(stimOut.rows) = 15
            /\ (L = 7 /\ stimArgs.reps_poss_negs = 40 /\ stimArgs.reps_noss = 20)
                  => Len(stimOut.rows) = 700

\* the table of the session-0 call
C7_Witness ==
    /\ stimOut.status = "ok"
    /\ stimArgs.n_conditions = 7
    /\ stimArgs.reps_poss_negs = 40
    /\ stimArgs.reps_noss = 20
    /\ Len(stimOut.rows) = 700

SurroundTypeRank(surr_type) ==
    CASE surr_type = "poss" -> 0 [] surr_type = "negs" -> 1 [] surr_type = "noss" -> 2

\* the key of row a is not greater than the key of row b
KeyNotGreater(a, b) ==
    \/ SurroundTypeRank(a.surr_type) < SurroundTypeRank(b.surr_type)
    \/ /\ SurroundTypeRank(a.surr_type) = SurroundTypeRank(b.surr_type)
       /\ \/ StepMultiple(a.type) < StepMultiple(b.type)
          \/ /\ a.type = b.type
             /\ (a.center = b.center \/ RLess(a.center, b.center))

\* C8: the rows are ordered by surround type rank poss < negs < noss, then by
\* offset label rank m3 < m2 < m1 < PSE < p1 < p2 < p3, then by center
\* ascending: the key of consecutive rows never decreases
C8_RowOrder ==
    stimOut.status = "ok" =>
        \A i \in 1..(Len(stimOut.rows) - 1) :
            KeyNotGreater(stimOut.rows[i], stimOut.rows[i + 1])

\* a table with rows of the three surround types whose centers do not ascend
\* with the offset label
C8_Witness ==
    /\ stimOut.status = "ok"
    /\ \A t \in {"poss", "negs", "noss"} : StimRows(t) # <<>>
    /\ \E i \in 1..(Len(stimOut.rows) - 1) :
          /\ stimOut.rows[i].surr_type = stimOut.rows[i + 1].surr_type
          /\ RLess(stimOut.rows[i + 1].center, stimOut.rows[i].center)

\* C9: the call fails and returns no table when the PSE map lacks one of the
\* keys poss, negs, noss or n_conditions is neither 5 nor 7; otherwise it
\* raises neither error
C9_ConfigErrors ==
    stimOut.status # "none" =>
        LET bad == \/ ~({"poss", "negs", "noss"} \subseteq DOMAIN stimArgs.pse_by_condition)
                   \/ stimArgs.n_conditions \notin {5, 7}
        IN  /\ bad => stimOut.status = "ValueError" /\ stimOut.rows = NoTable
            /\ ~bad => stimOut.status = "ok"

\* a refused call whose PSE map is complete and whose n_conditions is 6
C9_Witness ==
    /\ stimOut.status = "ValueError"
    /\ stimOut.rows = NoTable
    /\ DOMAIN stimArgs.pse_by_condition = {"poss", "negs", "noss"}
    /\ stimArgs.n_conditions = 6

(***************************************************************************)
(* Properties of the MoCS aggregation (checked under SpecMocs)             *)
(***************************************************************************)
\* a row whose response is not left or right, or whose type is outside the
\* 7-level vocabulary
ExcludedRow(r) ==
    \/ r.resp \notin {"left", "right"}
    \/ r.type \notin {"m3", "m2", "m1", "PSE", "p1", "p2", "p3"}

\* the sequence s without its element at pos
RemoveAt(s, pos) == SubSeq(s, 1, pos - 1) \o SubSeq(s, pos + 1, Len(s))

\* C10: adding to the log a row whose response is not left or right, or whose
\* type is outside the vocabulary, leaves the combined and the separate table
\* unchanged
C10_ExcludedRowsIgnored ==
    [][(\E pos \in 1..Len(mocs') :
            /\ mocs = RemoveAt(mocs', pos)
            /\ ExcludedRow(mocs'[pos]))
        => /\ mocsOut.status = "ok"
           /\ mocsOut'.status = "ok"
           /\ mocsOut'.comb_out = mocsOut.comb_out
           /\ mocsOut'.separate = mocsOut.separate]_vars

\* a log analysed with a counted row and, after it, one excluded row of each
\* kind: a timeout response and a type outside the vocabulary
C10_Witness ==
    /\ mocsOut.status = "ok"
    /\ Len(mocs) = 3
    /\ ~ExcludedRow(mocs[1])
    /\ mocs[2].resp = "timeout"
    /\ mocs[3].type = "m4"
    /\ Len(mocsOut.comb_out) = 1
    /\ mocsOut.comb_out[1].n = 1
    /\ Len(mocsOut.separate) = 1

\* the positions of the log rows that are counted: a type of the vocabulary
\* and a left or right response
CountedAt == {j \in 1..Len(mocs) : ~ExcludedRow(mocs[j])}

\* the number of counted log rows of a type, a value of the grouping column
\* ('group' or 'surr_type') and a response
NumCounted(type, column, by, resp) ==
    Cardinality({j \in CountedAt : /\ mocs[j].type = type
                                   /\ By(mocs[j], column) = by
                                   /\ mocs[j].resp = resp})

\* the number of counted poss and negs rows of a type with a response
NumWithSurround(type, resp) ==
    Cardinality({j \in CountedAt : /\ mocs[j].type = type
                                   /\ mocs[j].surr_type \in {"poss", "negs"}
                                   /\ mocs[j].resp = resp})

\* C11: in every row (type, group) of the combined table n_left and n_right
\* are the numbers of counted log rows of that type and group with response
\* left and right, poss and negs rows both counted in with_surround;
\* n = n_left + n_right, p_left = n_left / n and p_right = n_right / n
C11_CombinedCounts ==
    mocsOut.status = "ok" =>
        \A i \in 1..Len(mocsOut.comb_out) :
            LET t == mocsOut.comb_out[i]
            IN  /\ t.n_left = NumCounted(t.type, "group", t.by, "left")
                /\ t.n_right = NumCounted(t.type, "group", t.by, "right")
                /\ t.by = "with_surround" =>
                       /\ t.n_left = NumWithSurround(t.type, "left")
                       /\ t.n_right = NumWithSurround(t.type, "right")
                /\ t.n = t.n_left + t.n_right
                /\ t.n > 0
                /\ t.p_left = Rat(t.n_left, t.n)
                /\ t.p_right = Rat(t.n_right, t.n)

\* the worked example: a log of 6 poss and negs rows at PSE, 4 left and 2
\* right, gives the row n = 6, n_left = 4, n_right = 2, p_left = 4/6,
\* p_right = 2/6
C11_Witness ==
    /\ mocsOut.status = "ok"
    /\ Len(mocs) = 6
    /\ \E j \in 1..Len(mocs) : mocs[j].surr_type = "poss"
    /\ \E j \in 1..Len(mocs) : mocs[j].surr_type = "negs"
    /\ Len(mocsOut.comb_out) = 1
    /\ mocsOut.comb_out[1].type = "PSE"
    /\ mocsOut.comb_out[1].by = "with_surround"
    /\ mocsOut.comb_out[1].n = 6
    /\ mocsOut.comb_out[1].n_left = 4
    /\ mocsOut.comb_out[1].n_right = 2
    /\ mocsOut.comb_out[1].p_left = Rat(4, 6)
    /\ mocsOut.comb_out[1].p_right = Rat(2, 6)

\* the sum of a count column over the rows of the separate table with a type
\* and a surround type (0 when the table has no such row)
RECURSIVE SeparateSum(_, _, _, _)
SeparateSum(rows, type, surr, column) ==
    IF rows = <<>> THEN 0
    ELSE (IF Head(rows).type = type /\ Head(rows).by = surr
          THEN (IF column = "n_left" THEN Head(rows).n_left
                ELSE IF column = "n_right" THEN Head(rows).n_right
                ELSE Head(rows).n)
          ELSE 0)
         + SeparateSum(Tail(rows), type, surr, column)

\* C12: the two views agree: a combined with_surround row has the counts of
\* the separate poss row plus those of the separate negs row of its type, a
\* combined noss row has the counts of the separate noss row of its type, and
\* every separate poss, negs or noss row is covered by a combined row
C12_CombinedAgreesWithSeparate ==
    mocsOut.status = "ok" =>
        /\ \A i \in 1..Len(mocsOut.comb_out) :
               LET t == mocsOut.comb_out[i]
               IN  \A column \in {"n_left", "n_right", "n"} :
                       LET c == IF column = "n_left" THEN t.n_left
                                ELSE IF column = "n_right" THEN t.n_right ELSE t.n
                       IN  /\ t.by = "with_surround" =>
                                c = SeparateSum(mocsOut.separate, t.type, "poss", column)
                                    + SeparateSum(mocsOut.separate, t.type, "negs", column)
                           /\ t.by = "noss" =>
                                c = SeparateSum(mocsOut.separate, t.type, "noss", column)
        /\ \A i \in 1..Len(mocsOut.separate) :
               LET u == mocsOut.separate[i]
               IN  u.by \in {"poss", "negs", "noss"} =>
                       \E j \in 1..Len(mocsOut.comb_out) :
                           /\ mocsOut.comb_out[j].type = u.type
                           /\ mocsOut.comb_out[j].by =
                                  (IF u.by = "noss" THEN "noss" ELSE "with_surround")

\* the rows of both tables, each with the grouping column of its table
TableRows ==
    {<<mocsOut.comb_out[i], "group">> : i \in 1..Len(mocsOut.comb_out)}
    \cup {<<mocsOut.separate[i], "surr_type">> : i \in 1..Len(mocsOut.separate)}

\* C13: a key with no counted row gives no table row: every row of the
\* combined and of the separate table has a counted log row of its key, has
\* n >= 1, 0 <= p_left <= 1 and p_left + p_right = 1, and its proportions are
\* the counts divided by n, never by the substitute denominator 1 of n = 0
C13_NoEmptyGroupRow ==
    mocsOut.status = "ok" =>
        \A tc \in TableRows :
            LET t == tc[1]
            IN  /\ \E j \in CountedAt : /\ mocs[j].type = t.type
                                        /\ By(mocs[j], tc[2]) = t.by
                /\ t.n >= 1
                /\ RLeq(RInt(0), t.p_left)
                /\ RLeq(t.p_left, RInt(1))
                /\ RAdd(t.p_left, t.p_right) = RInt(1)
                /\ t.p_left = Rat(t.n_left, t.n)
                /\ t.p_right = Rat(t.n_right, t.n)

\* a log with m1 counted only with a surround and PSE counted only without:
\* two rows in the combined table, none for (m1, noss) or (PSE, with_surround)
C13_Witness ==
    /\ mocsOut.status = "ok"
    /\ Len(mocsOut.comb_out) = 2
    /\ mocsOut.comb_out[1].type = "PSE"
    /\ mocsOut.comb_out[1].by = "noss"
    /\ mocsOut.comb_out[2].type = "m1"
    /\ mocsOut.comb_out[2].by = "with_surround"
    /\ \E j \in 1..Len(mocs) : ExcludedRow(mocs[j])

\* the centers of the counted log rows of a table row's key, rounded to 3
\* decimals
RoundedCenters(t, column) ==
    {Round3(mocs[j].center) :
        j \in {k \in CountedAt : /\ mocs[k].type = t.type
                                 /\ By(mocs[k], column) = t.by
                                 /\ ~IsNaN(mocs[k].center)}}

\* C14: the values of every table row are the centers of its counted rows
\* rounded to 3 decimals, in ascending order and without duplicates, also
\* when two distinct centers round to the same value
C14_ValuesDuplicateFree ==
    mocsOut.status = "ok" =>
        \A tc \in TableRows :
            LET v == tc[1].values
            IN  /\ Range(v) = RoundedCenters(tc[1], tc[2])
                /\ \A i \in 1..Len(v) : \A j \in 1..Len(v) :
                       i < j => RLess(v[i], v[j])

\* C15: the filter is idempotent: the filtered log holds the counted rows in
\* log order, filtering it again changes nothing, and analyze_mocs gives the
\* same combined and separate table on the filtered log as on the log
C15_FilterIdempotent ==
    (mocsOut.status = "ok" /\ mocsRe.status = "ok") =>
        /\ mocsRe.d = SelectSeq(mocs, LAMBDA r : ~ExcludedRow(r))
        /\ mocsRe.dd = mocsRe.d
        /\ mocsRe.out.comb_out = mocsOut.comb_out
        /\ mocsRe.out.separate = mocsOut.separate

\* a log with excluded rows around counted rows, so that the filter removes
\* rows and the tables have a row
C15_Witness ==
    /\ mocsOut.status = "ok"
    /\ mocsRe.status = "ok"
    /\ Len(mocs) = 3
    /\ ExcludedRow(mocs[1])
    /\ ~ExcludedRow(mocs[2])
    /\ Len(mocsRe.d) = 2
    /\ Len(mocsRe.dd) = 2
    /\ Len(mocsRe.out.comb_out) >= 1

\* the distinct centers of the counted log rows of a surround type
CentersOf(surr) ==
    {mocs[j].center : j \in {k \in CountedAt : mocs[k].surr_type = surr}}

\* the number of counted log rows of a surround type at a center with a
\* response
NumAtCenter(surr, center, resp) ==
    Cardinality({j \in CountedAt : /\ mocs[j].surr_type = surr
                                   /\ mocs[j].center = center
                                   /\ mocs[j].resp = resp})

\* C16: mocs_psychometric_tables returns a table for each of poss, negs and
\* noss that has a counted row and for no other; the table has one row for
\* each distinct center of those rows, in ascending center order, with
\* n_left the left responses at the center, n the left plus the right
\* responses there and p_left = n_left / n
C16_PsychometricTables ==
    psyOut.status = "ok" =>
        /\ DOMAIN psyOut.tables =
               {surr \in {"poss", "negs", "noss"} : CentersOf(surr) # {}}
        /\ \A surr \in DOMAIN psyOut.tables :
               LET tab == psyOut.tables[surr]
               IN  /\ {tab[i].center : i \in 1..Len(tab)} = CentersOf(surr)
                   /\ Len(tab) = Cardinality(CentersOf(surr))
                   /\ \A i \in 1..Len(tab) : \A j \in 1..Len(tab) :
                          i < j => RLess(tab[i].center, tab[j].center)
                   /\ \A i \in 1..Len(tab) :
                          /\ tab[i].n_left = NumAtCenter(surr, tab[i].center, "left")
                          /\ tab[i].n = NumAtCenter(surr, tab[i].center, "left")
                                        + NumAtCenter(surr, tab[i].center, "right")
                          /\ tab[i].n > 0
                          /\ tab[i].p_left = Rat(tab[i].n_left, tab[i].n)

\* a log with poss rows at two centers closer than 10^-3 and a counted row of
\* another surround tag: one table, for poss, with a row for each center
C16_Witness ==
    /\ psyOut.status = "ok"
    /\ DOMAIN psyOut.tables = {"poss"}
    /\ Len(psyOut.tables["poss"]) = 2
    /\ psyOut.tables["poss"][1].center = Rat(5001, 10000)
    /\ psyOut.tables["poss"][2].center = Rat(5004, 10000)
    /\ \E j \in CountedAt : mocs[j].surr_type = "none"

(***************************************************************************)
(* Properties of the fit (checked under SpecFit) and of the curves         *)
(* (checked under SpecCurve)                                               *)
(***************************************************************************)
\* the fit has been called and has returned or raised
FitCalled == fitOut.status # "none"

\* C17: with SciPy installed, a call with a model name that is neither
\* 'logistic2' nor 'logistic4' fails with a configuration error (ValueError)
\* and returns no fit result
C17_UnknownModelRejected ==
    (FitCalled /\ fitArgs.scipy_installed
        /\ fitArgs.model \notin {"logistic2", "logistic4"})
    => fitOut.status = "ValueError"

\* C18: when minimize reports that it did not converge the fit does not
\* raise: it returns success = false with the message, the parameter vector
\* and the three thresholds.  Without SciPy the call raises before anything
\* is computed (also for a table that would make the computation fail), and
\* with SciPy and a table with rows it always returns
C18_NonConvergenceReturned ==
    FitCalled =>
        /\ (fitArgs.scipy_installed /\ fitArgs.table # <<>> /\ ~fitArgs.res.success) =>
               /\ fitOut.status = "ok"
               /\ fitOut.success = FALSE
               /\ fitOut.message = fitArgs.res.message
               /\ fitOut.params = fitArgs.res.x
               /\ {"threshold_p50", "threshold_p60", "threshold_p70"}
                      \subseteq DOMAIN fitOut
               /\ ~IsNaN(fitOut.threshold_p50)
               /\ ~IsNaN(fitOut.threshold_p60)
               /\ ~IsNaN(fitOut.threshold_p70)
        /\ ~fitArgs.scipy_installed => fitOut = [status |-> "RuntimeError"]
        /\ (fitArgs.scipy_installed /\ fitArgs.table # <<>>) => fitOut.status = "ok"

\* a 4-parameter fit whose search did not converge has returned
C18_Witness ==
    /\ fitOut.status = "ok"
    /\ fitArgs.model = "logistic4"
    /\ ~fitArgs.res.success
    /\ fitOut.success = FALSE
    /\ fitOut.message = "ABNORMAL_TERMINATION_IN_LNSRCH"
    /\ Len(fitOut.params) = 4

C20_Logistic4ReducesToLogistic2 ==
    (curveOut.status = "ok" /\ curveArgs.gamma = RInt(0) /\ curveArgs.lam = RInt(0))
    => /\ RLess(RInt(0), curveArgs.s)
       /\ curveOut.logistic4 = curveOut.logistic2

\* both curves evaluated off the midpoint with a slope other than 1 and no
\* guess or lapse rate
C20_Witness ==
    /\ curveOut.status = "ok"
    /\ curveArgs.gamma = RInt(0)
    /\ curveArgs.lam = RInt(0)
    /\ curveArgs.x = RInt(2)
    /\ curveArgs.x0 = RInt(0)
    /\ curveArgs.s = RInt(2)
    /\ curveOut.logistic2 = Rat(1000, 1368)
    /\ curveOut.logistic4 = Rat(1000, 1368)

(***************************************************************************)
(* Properties of the calls on data frames (checked under SpecFrame)        *)
(***************************************************************************)
\* the frame has each of the named columns
HasColumns(names) == names \subseteq frame.columns

\* C21: a frame with an incomplete schema is rejected before anything is
\* computed: pse_last_k_per_block_per_condition raises ValueError when the
\* label or the intensity column is absent, analyze_mocs and
\* mocs_psychometric_tables raise ValueError when one of type, surr_type,
\* resp.keys, center is absent, and no table is returned then
C21_IncompleteSchemaRejected ==
    /\ (frameOut.status = "pse"
            /\ ~HasColumns({"trials.label", "trials.intensity"}))
       => /\ frameOut.pse.status = "ValueError"
          /\ frameOut.pse.per_block = <<>>
          /\ frameOut.pse.coll = <<>>
    /\ (frameOut.status = "mocs"
            /\ ~HasColumns({"type", "surr_type", "resp.keys", "center"}))
       => /\ frameOut.analyze.status = "ValueError"
          /\ frameOut.analyze.comb_out = <<>>
          /\ frameOut.analyze.separate = <<>>
          /\ frameOut.tables.status = "ValueError"
          /\ frameOut.tables.tables = <<>>

\* the staircase aggregation called on a frame of two rows that has the
\* label column and the block columns but no intensity column
C21_Witness ==
    /\ frameOut.status = "pse"
    /\ frame.columns = {"trials.label", "blocks.thisRepN", "blocks.thisN"}
    /\ Len(frame.rows) = 2
    /\ frameOut.pse.status = "ValueError"

\* C22: the staircase aggregation is total on frames with the label and the
\* intensity column: the call returns its two tables, also for a frame
\* without rows, one whose rows all lack a label or an intensity, and one
\* whose block column is empty on some valid rows
C22_TotalOnValidSchema ==
    (frameOut.status = "pse" /\ HasColumns({"trials.label", "trials.intensity"}))
    => frameOut.pse.status = "ok"

ValidAt ==
    {i \in 1..Len(frame.rows) :
        frame.rows[i].label # <<>> /\ frame.rows[i].intensity.d # 0}

\* C24: rows with a missing label or intensity are dropped before the
\* aggregation: the n_trials_available of the table sum to the number of
\* valid rows, and the tables are those of the frame without such rows
C24_InvalidRowsDropped ==
    (frameOut.status = "pse" /\ frameOut.pse.status = "ok") =>
        /\ \E c \in frameOut.clean :
               /\ c.status = "ok"
               /\ c.per_block = frameOut.pse.per_block
               /\ c.coll = frameOut.pse.coll
        /\ LET pb == frameOut.pse.per_block
           IN  \A i \in 1..Len(pb) :
                   pb[i].n_trials_available <= Cardinality(ValidAt)

\* the block of a frame row, as TrialLog assigns it
BlockAt(i) == TrialLog(frame)[i].block

\* the position of a condition in the order noss, poss, negs
ConditionPosition(c) == IF c = "noss" THEN 1 ELSE IF c = "poss" THEN 2 ELSE 3

\* C25: the per-block table has exactly one row for every pair of a block
\* with a valid row and a condition of noss, poss, negs, also for a pair
\* without trials (n_trials_available = 0, n_used = 0, mean_last_k
\* undefined); its rows are sorted by block and, within a block, in the
\* order noss, poss, negs; the collapsed table has its three rows in that
\* order
C25_PerBlockRowsAndOrder ==
    (frameOut.status = "pse" /\ frameOut.pse.status = "ok") =>
        LET pb     == frameOut.pse.per_block
            blocks == {BlockAt(i) : i \in ValidAt}
        IN  /\ Len(pb) = 3 * Cardinality(blocks)
            /\ \A b \in blocks : \A c \in {"noss", "poss", "negs"} :
                   Cardinality({i \in 1..Len(pb) :
                       pb[i].block_id = b /\ pb[i].condition = c}) = 1
            /\ \A i \in 1..Len(pb) :
                   LET n == Cardinality({j \in ValidAt :
                               /\ BlockAt(j) = pb[i].block_id
                               /\ frame.rows[j].label[Len(frame.rows[j].label)]
                                      = pb[i].condition})
                   IN  /\ pb[i].n_trials_available = n
                       /\ n = 0 => (pb[i].n_used = 0 /\ pb[i].mean_last_k.d = 0)
            /\ \A i \in 1..Len(pb) : \A j \in 1..Len(pb) :
                   i < j =>
                       \/ pb[i].block_id < pb[j].block_id
                       \/ /\ pb[i].block_id = pb[j].block_id
                          /\ ConditionPosition(pb[i].condition)
                                 < ConditionPosition(pb[j].condition)
            /\ Len(frameOut.pse.coll) = 3
            /\ \A i \in 1..3 :
                   ConditionPosition(frameOut.pse.coll[i].condition) = i

\* a frame whose first row is in block 1 and whose second row is in block
\* 0, both noss: six rows, block 0 first, with rows for the pairs without
\* trials
C25_Witness ==
    /\ frameOut.status = "pse"
    /\ frameOut.pse.status = "ok"
    /\ "blocks.thisRepN" \in frame.columns
    /\ Len(frame.rows) = 2
    /\ frame.rows[1].repN = RInt(1)
    /\ frame.rows[2].repN = RInt(0)
    /\ ValidAt = {1, 2}
    /\ Len(frameOut.pse.per_block) = 6
    /\ frameOut.pse.per_block[1].block_id = 0
    /\ frameOut.pse.per_block[2].condition = "poss"
    /\ frameOut.pse.per_block[2].n_trials_available = 0

\* neither block column of the frame holds a value
NoBlockValue ==
    /\ "blocks.thisRepN" \in frame.columns =>
           \A i \in 1..Len(frame.rows) : frame.rows[i].repN.d = 0
    /\ "blocks.thisN" \in frame.columns =>
           \A i \in 1..Len(frame.rows) : frame.rows[i].thisN.d = 0

\* both block columns of the frame hold a value
BothBlockColumnsUsable ==
    /\ HasColumns({"blocks.thisRepN", "blocks.thisN"})
    /\ \E i \in 1..Len(frame.rows) : frame.rows[i].repN.d # 0
    /\ \E i \in 1..Len(frame.rows) : frame.rows[i].thisN.d # 0

\* C26: without a usable block column the valid rows are one block 0: the
\* per-block table has three rows, all of block 0, and each collapsed PSE is
\* that block's mean_last_k with n_blocks_used 0 or 1; when both block
\* columns are usable the blocks are those of blocks.thisRepN
C26_ImplicitBlock ==
    (frameOut.status = "pse" /\ frameOut.pse.status = "ok") =>
        LET pb   == frameOut.pse.per_block
            coll == frameOut.pse.coll
        IN  /\ NoBlockValue =>
                   /\ Len(pb) = 3
                   /\ \A i \in 1..3 :
                          /\ pb[i].block_id = 0
                          /\ coll[i].condition = pb[i].condition
                          /\ coll[i].PSE = pb[i].mean_last_k
                          /\ coll[i].n_blocks_used
                                 = (IF pb[i].mean_last_k.d = 0 THEN 0 ELSE 1)
            /\ BothBlockColumnsUsable =>
                   {pb[i].block_id : i \in 1..Len(pb)}
                       = {IF frame.rows[j].repN.d = 0 THEN NaBlock
                          ELSE frame.rows[j].repN.n : j \in ValidAt}

\* a frame that has the column blocks.thisRepN without any value in it: the
\* two valid rows form block 0
C26_Witness ==
    /\ frameOut.status = "pse"
    /\ frameOut.pse.status = "ok"
    /\ frame.columns = {"trials.label", "trials.intensity", "blocks.thisRepN"}
    /\ NoBlockValue
    /\ ValidAt = {1, 2}
    /\ Len(frameOut.pse.per_block) = 3
    /\ frameOut.pse.per_block[1].n_trials_available = 1
    /\ frameOut.pse.per_block[2].n_trials_available = 1
    /\ frameOut.pse.coll[1].n_blocks_used = 1
    /\ frameOut.pse.coll[3].n_blocks_used = 0

(***************************************************************************)
(* Order of the MoCS tables (checked under SpecMocs)                       *)
(***************************************************************************)
\* the string a is before the string b in Python's order of strings
StrBefore(a, b) ==
    \E i \in 1..Len(StrOrder) : \E j \in 1..Len(StrOrder) :
        i < j /\ StrOrder[i] = a /\ StrOrder[j] = b

\* the rows of a proportion table have strictly increasing keys (by, type)
StrictlyIncreasingKeys(t) ==
    \A i \in 1..Len(t) : \A j \in 1..Len(t) :
        i < j =>
            \/ StrBefore(t[i].by, t[j].by)
            \/ (t[i].by = t[j].by /\ StrBefore(t[i].type, t[j].type))

\* C27: the rows of the combined table are sorted ascending by (group,
\* offsetLabel) and those of the separate table by (surroundType,
\* offsetLabel): keys are strictly increasing, so no two rows share a key
C27_TablesSortedByKey ==
    mocsOut.status = "ok" =>
        /\ StrictlyIncreasingKeys(mocsOut.comb_out)
        /\ StrictlyIncreasingKeys(mocsOut.separate)

\* a log with a poss response at PSE written before a negs response at m1:
\* the separate table has (negs, m1) before (poss, PSE), the combined table
\* has (with_surround, PSE) before (with_surround, m1)
C27_Witness ==
    /\ mocsOut.status = "ok"
    /\ Len(mocs) = 2
    /\ mocs[1].type = "PSE" /\ mocs[1].surr_type = "poss"
    /\ mocs[2].type = "m1" /\ mocs[2].surr_type = "negs"
    /\ Len(mocsOut.separate) = 2
    /\ mocsOut.separate[1].by = "negs" /\ mocsOut.separate[1].type = "m1"
    /\ mocsOut.separate[2].by = "poss" /\ mocsOut.separate[2].type = "PSE"
    /\ Len(mocsOut.comb_out) = 2
    /\ mocsOut.comb_out[1].type = "PSE" /\ mocsOut.comb_out[2].type = "m1"

(***************************************************************************)
(* The two aggregations of one MoCS frame (checked under SpecFrame)        *)
(***************************************************************************)
\* the sum of n (column = "n") or of n_left over the rows of a table that
\* satisfy keep
RECURSIVE TableSum(_, _, _)
TableSum(rows, column, keep) ==
    IF rows = <<>> THEN 0
    ELSE (IF Head(rows) \in keep
          THEN (IF column = "n" THEN Head(rows).n ELSE Head(rows).n_left)
          ELSE 0)
         + TableSum(Tail(rows), column, keep)

\* C28: the psychometric tables and the separate table of analyze_mocs count
\* the same trials: for each of poss, negs, noss the n and the n_left of the
\* psychometric table of the surround type sum to those of the separate
\* rows of that surround type, also when a row of the log has no center
C28_SameTrialsInBothViews ==
    (frameOut.status = "mocs" /\ frameOut.analyze.status = "ok") =>
        \A surr \in {"poss", "negs", "noss"} : \A column \in {"n", "n_left"} :
            LET tab == IF surr \in DOMAIN frameOut.tables.tables
                       THEN frameOut.tables.tables[surr] ELSE <<>>
                sep == frameOut.analyze.separate
            IN  TableSum(tab, column, Range(tab))
                    = TableSum(sep, column,
                               {r \in Range(sep) : r.by = surr})

(***************************************************************************)
(* The baseline stimulus file (checked under SpecSession)                  *)
(***************************************************************************)
\* C29: in session 0 the stimulus file is built from the staircase log
\* only when it does not exist; an existing file is never written again
\* and is the trial list as it is, so every start of session 0 presents
\* the stimuli the first run wrote
C29_BaselineStimuliWrittenOnce ==
    [][/\ sess.stimFile.exists =>
              (sess'.stimFile = sess.stimFile /\ sess'.written = sess.written)
       /\ sess'.stimFile # sess.stimFile =>
              /\ ~sess.stimFile.exists
              /\ sess'.ses = 0
              /\ sess'.runs = sess.runs + 1
              /\ sess'.written = <<sess'.stimFile.rows>>
       /\ (sess.phase = "begun" /\ sess'.phase = "trials" /\ sess'.ses = 0) =>
              /\ Len(sess'.written) = 1
              /\ Len(sess'.trialList) = Len(sess'.written[1])
              /\ \A i \in 1..Len(sess'.trialList) :
                     LET shown == sess'.trialList[i]
                         saved == sess'.written[1][i]
                     IN  /\ shown.center = (IF saved.center.blank THEN NaN
                                            ELSE saved.center.text)
                         /\ shown.surround = saved.surround.text
                         /\ shown.type = saved.type
                         /\ shown.surr_type = saved.surr_type
                         /\ shown.surr_opacity = saved.surr_opacity]_vars

\* session 0 started a second time after the staircase directory changed:
\* the trial list is the file of the first run, not the file the directory
\* would give now
C29_Witness ==
    /\ sess.runs = 2
    /\ sess.ses = 0
    /\ sess.phase = "trials"
    /\ Len(sess.written) = 1
    /\ sess.trialList = ImportConditions(sess.written[1])
    /\ Len(sess.trialList) = 7 * (2 * SessionRepsPossNegs + SessionRepsNoss)
    /\ BuildBaselineStims(sess.dir).status = "ok"
    /\ BuildBaselineStims(sess.dir).file.rows # sess.written[1]

(***************************************************************************)
(* The routine "trial" (checked under SpecTrial)                           *)
(***************************************************************************)
\* C30: the routine "trial" has no timeout: while it runs it ends only in
\* a pass of the frame loop in which a left or right key press has been
\* read, or with the end of the experiment (escape, or the handler's status
\* FINISHED); so every trial whose routine came to its end is logged with
\* the response left or right
C30_TrialEndsOnResponseOnly ==
    [][/\ (trial.phase = "running" /\ trial'.phase = "ended") =>
              /\ trial'.keys \in {"left", "right"}
              /\ trial'.logged = Append(trial.logged, trial'.keys)
       /\ (trial.phase = "running" /\ trial'.phase = "quit") =>
              /\ trial'.expStatus = "FINISHED"
              /\ trial'.logged = trial.logged
       /\ (trial.phase = "running" /\ trial'.phase = "running") =>
              /\ trial'.keys = ""
              /\ trial'.logged = trial.logged
       /\ \A i \in 1..Len(trial'.logged) : trial'.logged[i] \in {"left", "right"}]_vars

\* a routine that ran on for a second after both gratings were over, with
\* a key outside left/right typed meanwhile, and ended with the response
\* left
C30_Witness ==
    /\ trial.phase = "ended"
    /\ trial.frameN = MaxFrames
    /\ trial.tThisFlip >= 1500
    /\ trial.status.surround_grating = "FINISHED"
    /\ trial.status.center_grating = "FINISHED"
    /\ trial.status.text_4 = "STARTED"
    /\ trial.keys = "left"
    /\ trial.logged = <<"left">>

====
